---- MODULE Spec2Model ----
(***************************************************************************)
(* GPUValidator (src/yaml_scrips/gpu-validation-module.py): the probes,    *)
(* the per-node nvidia-smi check with its debug pod, and the orchestrator  *)
(* run_all_validations, as a state machine over the responses of the       *)
(* command gateway (run_command).                                          *)
(*                                                                         *)
(* A text (stdout, stderr, a name) is a sequence of tokens; a JSON         *)
(* document is a record tagged by what json.loads makes of it.             *)
(***************************************************************************)
EXTENDS Integers, Sequences, FiniteSets, TLC

VARIABLES
    pc,                  \* position inside run_all_validations, or "direct"
    exc,                 \* exception that left the entry point, or "none"
    validation_results,  \* self.validation_results, in insertion order
    cmds,                \* run_command calls so far (phase polls are counted in attempt)
    nodes,               \* items of the final inventory still to be visited
    smiPc,               \* position inside validate_nvidia_smi_on_node
    node_name,           \* its argument
    temp_file,           \* content of /tmp/nvidia-smi-debug.json
    attempt,             \* phase queries issued by the current polling loop
    sleeps,              \* time.sleep(1) calls of the current polling loop
    phase,               \* phase read by the latest phase query
    return_code,         \* local return_code (latest run_command but delete's)
    stdout,              \* local stdout
    stderr,              \* local stderr
    smiExc,              \* exception raised by validate_nvidia_smi_on_node
    ret,                 \* value returned by the latest validate_* call
    created,             \* debug pods whose create returned 0, in order
    deleted,             \* debug pods a delete was issued for, in order
    teardown,            \* how the latest delete exited; the code drops it
    inventory,           \* items of the final inventory query
    last,                \* latest stand-alone probe call: probe, response, outcome
    calls,               \* stand-alone probe calls made on this validator
    prev,                \* the stand-alone probe call before the latest one
    runs,                \* calls of run_all_validations made on this validator
    target,              \* namespace and pod_name given to test_gpu_workload
    checks,              \* the per-node checks that run concurrently
    parse                \* parse_ready_condition_message: input, locals, result

vars == <<pc, exc, validation_results, cmds, nodes, smiPc, node_name, temp_file,
          attempt, sleeps, phase, return_code, stdout, stderr, smiExc, ret,
          created, deleted, teardown, inventory, last, calls, prev, runs, target,
          checks, parse>>

(* what the other entry points keep, untouched by a run or a per-node check *)
restVars == <<prev, runs, target, checks, parse>>

(* what a step of validate_nvidia_smi_on_node leaves alone in its caller *)
callerVars == <<pc, exc, nodes, inventory, last, calls, restVars>>

(* the locals and the pods of validate_nvidia_smi_on_node *)
smiVars == <<smiPc, node_name, temp_file, attempt, sleeps, phase, return_code,
             stdout, stderr, smiExc, created, deleted, teardown>>

-----------------------------------------------------------------------------
(* Bounds of the model *)

MaxNodes == 2

(* longest "items" list of a stand-alone probe's response *)
MaxItems == 2

(* stand-alone probe calls made on one validator *)
MaxCalls == 2

(* for _ in range(30) *)
PollAttempts == 30

-----------------------------------------------------------------------------
(* Texts *)

NoText == <<>>

Contains(text, tok) == \E i \in 1..Len(text) : text[i] = tok

(* tokens matching \d+\.\d+\.\d+ *)
VersionTriples == {"535.104.05", "470.57.02"}

(* positions where r"Driver Version: (\d+\.\d+\.\d+)" matches *)
VersionMatches(text) ==
    {i \in 1..Len(text) : /\ i + 2 <= Len(text)
                          /\ text[i] = "Driver Version"
                          /\ text[i + 1] = ": "
                          /\ text[i + 2] \in VersionTriples}

Min(S) == CHOOSE x \in S : \A y \in S : x <= y

(* re.search(...).group(1) if the pattern matches else "Unknown" *)
DriverVersion(text) ==
    IF VersionMatches(text) = {} THEN "Unknown"
    ELSE text[Min(VersionMatches(text)) + 2]

(* "NVIDIA-SMI" in stdout and "Driver Version" in stdout *)
ExpectedOutput(text) ==
    Contains(text, "NVIDIA-SMI") /\ Contains(text, "Driver Version")

-----------------------------------------------------------------------------
(* Node names: the dot-separated components of the host name *)

NodeNames == {<<"node1", "a">>, <<"node1", "b">>, <<"node2">>}

(* f"nvidia-smi-debug-{node_name.split('.')[0]}" *)
DebugPodName(n) == <<"nvidia-smi-debug-", n[1]>>

(* f"nvidia_smi_{node_name}" *)
SmiKey(n) == <<"nvidia_smi_">> \o n

NoPod == [name |-> <<>>, node |-> <<>>]

(* pod_json: metadata.name and spec.nodeSelector are the fields that vary *)
PodJson(n) == [name |-> DebugPodName(n), node |-> n]

-----------------------------------------------------------------------------
(* The ledger: a Python dict keeps insertion order, and assigning to a key  *)
(* it holds replaces the value in place.                                    *)

Keys(vr) == {vr[i].name : i \in 1..Len(vr)}

Has(vr, k) == k \in Keys(vr)

Get(vr, k) == vr[CHOOSE i \in 1..Len(vr) : vr[i].name = k]

(* Put adding the entry at the end whatever the ledger holds *)
Put_Appends(vr, e) == Append(vr, e)

Put(vr, e) ==
    IF Has(vr, e.name)
    THEN [i \in 1..Len(vr) |-> IF vr[i].name = e.name THEN e ELSE vr[i]]
    ELSE Append(vr, e)

KeyOrder(vr) == [i \in 1..Len(vr) |-> vr[i].name]

NoDetails == [kind |-> "absent"]

(* details holding a raw text (stderr or stdout) *)
Raw(text) == [kind |-> "text", text |-> text]

(* a message: the words of its f-string and the numbers formatted into it *)
Msg(words, nums) == [words |-> words, nums |-> nums]

Entry(k, st, msg, det) ==
    [name |-> k, status |-> st, message |-> msg, details |-> det]

-----------------------------------------------------------------------------
(* Gateway responses of the per-node check *)

Resp(rc, out, err) == [rc |-> rc, out |-> out, err |-> err]

CreateResponses ==
    {Resp(0, <<"pod created">>, NoText),
     Resp(1, NoText, <<"create: forbidden">>)}

(* oc get pod <name> -o json: unparseable text, a JSON value that is no
   object, or an object with status.phase (Unknown when the field is absent) *)
BadJson == [t |-> "bad", phase |-> "-"]
NonObject == [t |-> "nonobj", phase |-> "-"]
PodDoc(ph) == [t |-> "obj", phase |-> ph]

PhaseResponses ==
    {Resp(1, BadJson, <<"get pod: not found">>),
     Resp(0, BadJson, NoText),
     Resp(0, NonObject, NoText),
     Resp(0, PodDoc("Pending"), NoText),
     Resp(0, PodDoc("Unknown"), NoText),
     Resp(0, PodDoc("Running"), NoText)}

ExecOutputs ==
    {<<"NVIDIA-SMI", "Driver Version", ": ", "535.104.05">>,
     <<"NVIDIA-SMI", "Driver Version", ": ", "384.81">>,
     <<"Driver Version", ": ", "N/A", "NVIDIA-SMI", "Driver Version", ": ", "470.57.02">>,
     <<"NVIDIA-SMI", "has failed">>,
     <<"Driver Version", ": ", "535.104.05">>}

ExecResponses ==
    {Resp(0, o, NoText) : o \in ExecOutputs}
    \cup {Resp(1, <<"NVIDIA-SMI", "has failed">>, <<"exec: driver not loaded">>)}

DeleteResponses ==
    {Resp(0, <<"pod deleted">>, NoText),
     Resp(1, NoText, <<"delete: not found">>)}

-----------------------------------------------------------------------------
(* validate_nvidia_smi_on_node, one action per blocking step *)

(* PollOutcome with a failing phase query ending the loop *)
PollOutcome_FailEnds(r) ==
    IF r.rc # 0 THEN "break"
    ELSE IF r.out.t = "bad" THEN "JSONDecodeError"
    ELSE IF r.out.t = "nonobj" THEN "AttributeError"
    ELSE IF r.out.phase = "Running" THEN "break"
    ELSE "sleep"

(* what one phase query does to the polling loop (lines 607-613):
   json.loads raises JSONDecodeError on unparseable output, .get raises
   AttributeError on a JSON value that is no object; neither is caught *)
PollOutcome(r) ==
    IF r.rc # 0 THEN "sleep"
    ELSE IF r.out.t = "bad" THEN "JSONDecodeError"
    ELSE IF r.out.t = "nonobj" THEN "AttributeError"
    ELSE IF r.out.phase = "Running" THEN "break"
    ELSE "sleep"

(* the loop header after an iteration that did not break *)
AfterSleep(n) == IF n < PollAttempts THEN "poll" ELSE "exec"

(* SmiEntry with a failed delete turning the result into failed *)
SmiEntry_DeleteDecides(n, rc, out, err) ==
    IF rc # 0 \/ teardown = "failed"
    THEN Entry(SmiKey(n), "failed", Msg(<<"nvidia-smi failed on node">> \o n, <<>>),
               Raw(err))
    ELSE IF ExpectedOutput(out)
    THEN Entry(SmiKey(n), "passed", Msg(<<"nvidia-smi is working on node">> \o n, <<>>),
               [kind |-> "smi", driver_version |-> DriverVersion(out)])
    ELSE Entry(SmiKey(n), "failed",
               Msg(<<"nvidia-smi output is not as expected on node">> \o n, <<>>),
               Raw(out))

(* lines 625-661: the result recorded once exec and delete have returned *)
SmiEntry(n, rc, out, err) ==
    IF rc # 0
    THEN Entry(SmiKey(n), "failed", Msg(<<"nvidia-smi failed on node">> \o n, <<>>),
               Raw(err))
    ELSE IF ExpectedOutput(out)
    THEN Entry(SmiKey(n), "passed", Msg(<<"nvidia-smi is working on node">> \o n, <<>>),
               [kind |-> "smi", driver_version |-> DriverVersion(out)])
    ELSE Entry(SmiKey(n), "failed",
               Msg(<<"nvidia-smi output is not as expected on node">> \o n, <<>>),
               Raw(out))

(* SmiReturn going by the exit status of the exec alone *)
SmiReturn_ExitOnly(rc, out) == rc = 0

SmiReturn(rc, out) == rc = 0 /\ ExpectedOutput(out)

(* lines 592-598 *)
CreateFailedEntry(n, err) ==
    Entry(SmiKey(n), "failed",
          Msg(<<"Failed to create debug pod on node">> \o n, <<>>), Raw(err))

(* lines 555-585: name the pod, build the manifest, write the shared file *)
SmiWriteManifest ==
    /\ smiPc = "start"
    /\ temp_file' = PodJson(node_name)
    /\ smiPc' = "create"
    /\ UNCHANGED <<callerVars, validation_results, cmds, node_name, attempt, sleeps,
                   phase, return_code, stdout, stderr, smiExc, ret, created, deleted,
                   teardown>>

(* SmiCreate entering the polling loop whatever the create returned *)
SmiCreate_PollsAnyway ==
    /\ smiPc = "create"
    /\ \E r \in CreateResponses :
        /\ cmds' = Append(cmds, <<"create">> \o temp_file.name)
        /\ return_code' = r.rc
        /\ stdout' = r.out
        /\ stderr' = r.err
        /\ created' = IF r.rc = 0 THEN Append(created, temp_file.name) ELSE created
    /\ smiPc' = "poll"
    /\ attempt' = 0
    /\ sleeps' = 0
    /\ phase' = "none"
    /\ UNCHANGED <<callerVars, validation_results, ret, node_name, temp_file, smiExc,
                   deleted, teardown>>

(* lines 587-598: oc create -f temp_file creates what the file holds *)
SmiCreate ==
    /\ smiPc = "create"
    /\ \E r \in CreateResponses :
        /\ cmds' = Append(cmds, <<"create">> \o temp_file.name)
        /\ return_code' = r.rc
        /\ stdout' = r.out
        /\ stderr' = r.err
        /\ IF r.rc # 0
           THEN /\ validation_results' =
                       Put(validation_results, CreateFailedEntry(node_name, r.err))
                /\ ret' = FALSE
                /\ smiPc' = "returned"
                /\ UNCHANGED created
           ELSE /\ created' = Append(created, temp_file.name)
                /\ smiPc' = "poll"
                /\ UNCHANGED <<validation_results, ret>>
    /\ attempt' = 0
    /\ sleeps' = 0
    /\ phase' = "none"
    /\ UNCHANGED <<callerVars, node_name, temp_file, smiExc, deleted, teardown>>

(* lines 602-611: one phase query of the polling loop *)
SmiPoll ==
    /\ smiPc = "poll"
    /\ attempt < PollAttempts
    /\ \E r \in PhaseResponses :
        /\ attempt' = attempt + 1
        /\ return_code' = r.rc
        /\ stderr' = r.err
        /\ LET o == PollOutcome(r) IN
           /\ phase' = IF r.rc = 0 /\ r.out.t = "obj" THEN r.out.phase ELSE phase
           /\ smiPc' = CASE o = "break" -> "exec"
                         [] o = "sleep" -> "sleep"
                         [] OTHER -> "raised"
           /\ smiExc' = IF o \in {"break", "sleep"} THEN smiExc ELSE o
    /\ UNCHANGED <<callerVars, validation_results, cmds, node_name, temp_file, sleeps,
                   stdout, ret, created, deleted, teardown>>

(* line 613, then the loop header *)
SmiSleep ==
    /\ smiPc = "sleep"
    /\ sleeps' = sleeps + 1
    /\ smiPc' = AfterSleep(attempt)
    /\ UNCHANGED <<callerVars, validation_results, cmds, node_name, temp_file, attempt,
                   phase, return_code, stdout, stderr, smiExc, ret, created, deleted,
                   teardown>>

(* SmiExec going on to the result without the delete *)
SmiExec_SkipsDelete ==
    /\ smiPc = "exec"
    /\ \E r \in ExecResponses :
        /\ return_code' = r.rc
        /\ stdout' = r.out
        /\ stderr' = r.err
    /\ cmds' = Append(cmds, <<"exec">> \o DebugPodName(node_name))
    /\ smiPc' = "record"
    /\ UNCHANGED <<callerVars, validation_results, node_name, temp_file, attempt, sleeps,
                   phase, smiExc, ret, created, deleted, teardown>>

(* lines 615-618 *)
SmiExec ==
    /\ smiPc = "exec"
    /\ \E r \in ExecResponses :
        /\ return_code' = r.rc
        /\ stdout' = r.out
        /\ stderr' = r.err
    /\ cmds' = Append(cmds, <<"exec">> \o DebugPodName(node_name))
    /\ smiPc' = "delete"
    /\ UNCHANGED <<callerVars, validation_results, node_name, temp_file, attempt, sleeps,
                   phase, smiExc, ret, created, deleted, teardown>>

(* lines 620-623: the delete's result is dropped *)
SmiDelete ==
    /\ smiPc = "delete"
    /\ \E r \in DeleteResponses :
        /\ cmds' = Append(cmds, <<"delete">> \o DebugPodName(node_name))
        /\ deleted' = Append(deleted, DebugPodName(node_name))
        /\ teardown' = IF r.rc = 0 THEN "ok" ELSE "failed"
    /\ smiPc' = "record"
    /\ UNCHANGED <<callerVars, validation_results, node_name, temp_file, attempt, sleeps,
                   phase, return_code, stdout, stderr, smiExc, ret, created>>

(* lines 625-661 *)
SmiRecord ==
    /\ smiPc = "record"
    /\ validation_results' =
           Put(validation_results, SmiEntry(node_name, return_code, stdout, stderr))
    /\ ret' = SmiReturn(return_code, stdout)
    /\ smiPc' = "returned"
    /\ UNCHANGED <<callerVars, cmds, node_name, temp_file, attempt, sleeps, phase,
                   return_code, stdout, stderr, smiExc, created, deleted, teardown>>

NoCall == [probe |-> "none"]

(* no namespace and pod name given *)
NoTarget == [namespace |-> <<>>, pod_name |-> <<>>]

(* parse_ready_condition_message is not running *)
NoParse == [pc |-> "idle"]

(* a fresh GPUValidator on which validate_nvidia_smi_on_node(n) is called *)
InitSmi ==
    /\ pc = "direct"
    /\ exc = "none"
    /\ validation_results = <<>>
    /\ cmds = <<>>
    /\ nodes = <<>>
    /\ smiPc = "start"
    /\ node_name \in NodeNames
    /\ temp_file = NoPod
    /\ attempt = 0
    /\ sleeps = 0
    /\ phase = "none"
    /\ return_code = 0
    /\ stdout = NoText
    /\ stderr = NoText
    /\ smiExc = "none"
    /\ ret = FALSE
    /\ created = <<>>
    /\ deleted = <<>>
    /\ teardown = "none"
    /\ inventory = <<>>
    /\ last = NoCall
    /\ calls = 0
    /\ prev = NoCall
    /\ runs = 0
    /\ target = NoTarget
    /\ checks = <<>>
    /\ parse = NoParse

NextSmi ==
    \/ SmiWriteManifest
    \/ SmiCreate
    \/ SmiPoll
    \/ SmiSleep
    \/ SmiExec
    \/ SmiDelete
    \/ SmiRecord

(* every step of the check is a blocking call that returns *)
SpecSmi == InitSmi /\ [][NextSmi]_vars /\ WF_vars(NextSmi)

-----------------------------------------------------------------------------
(* JSON documents of the collection queries (oc get ... -o json) *)

(* marks a key the document does not hold *)
Absent == <<"<absent>">>

AbsentNum == -1

(* output json.loads rejects; raw is the text itself *)
Unparseable == [t |-> "bad", raw |-> <<"<html>503</html>">>, items |-> <<>>]

(* valid JSON whose top level is no object: .get raises AttributeError *)
NotAnObject == [t |-> "nonobj", raw |-> <<"[]">>, items |-> <<>>]

(* an object; items is its "items" list, empty when the key is absent *)
Obj(items) == [t |-> "obj", raw |-> <<"{..}">>, items |-> items]

(* what a probe call did: returned after writing one entry, or raised *)
NoEntry == Entry(<<>>, "none", Msg(<<>>, <<>>), NoDetails)

Returned(e, v) == [exc |-> "none", wrote |-> TRUE, entry |-> e, ret |-> v]

Raised(x) == [exc |-> x, wrote |-> FALSE, entry |-> NoEntry, ret |-> FALSE]

ParseFailed(k, r) ==
    Returned(Entry(k, "failed", Msg(<<"Failed to parse JSON output from OpenShift">>, <<>>),
                   Raw(r.out.raw)), FALSE)

(* str.lower on the tokens of a name *)
LowerTok(t) ==
    CASE t = "GPU-Operator" -> "gpu-operator"
      [] t = "NVIDIA-Driver" -> "nvidia-driver"
      [] OTHER -> t

Lower(text) == [i \in 1..Len(text) |-> LowerTok(text[i])]

(* dict.get(key, default) *)
GetOr(v, default) == IF v = Absent THEN default ELSE v

GetNum(v) == IF v = AbsentNum THEN 0 ELSE v

(* the digits of a decimal string, and int() of it *)
Digits == {"0", "1", "2", "3", "4", "5", "6", "7", "8", "9"}

DigitVal(c) ==
    CASE c = "0" -> 0 [] c = "1" -> 1 [] c = "2" -> 2 [] c = "3" -> 3 [] c = "4" -> 4
      [] c = "5" -> 5 [] c = "6" -> 6 [] c = "7" -> 7 [] c = "8" -> 8 [] c = "9" -> 9

(* whether int(s) returns (it raises ValueError otherwise) *)
IntOk(s) == Len(s) > 0 /\ \A i \in 1..Len(s) : s[i] \in Digits

RECURSIVE IntOf(_)
IntOf(s) ==
    IF Len(s) = 0 THEN 0
    ELSE 10 * IntOf(SubSeq(s, 1, Len(s) - 1)) + DigitVal(s[Len(s)])

(* truth value of a str *)
Truthy(s) == Len(s) > 0

-----------------------------------------------------------------------------
(* OcConnection taking the connection for granted once the ledger holds its
   entry *)
OcConnection_FromLedger(r) ==
    IF r.rc # 0 /\ ~Has(validation_results, <<"oc_connection">>)
    THEN Returned(Entry(<<"oc_connection">>, "failed",
                        Msg(<<"Not connected to OpenShift cluster. Please run 'oc login' first.">>, <<>>),
                        Raw(r.err)), FALSE)
    ELSE Returned(Entry(<<"oc_connection">>, "passed",
                        Msg(<<"Connected to OpenShift cluster as">> \o r.out, <<>>),
                        NoDetails), TRUE)

(* validate_oc_connection (lines 58-74) *)

OcConnection(r) ==
    IF r.rc # 0
    THEN Returned(Entry(<<"oc_connection">>, "failed",
                        Msg(<<"Not connected to OpenShift cluster. Please run 'oc login' first.">>, <<>>),
                        Raw(r.err)), FALSE)
    ELSE Returned(Entry(<<"oc_connection">>, "passed",
                        Msg(<<"Connected to OpenShift cluster as">> \o r.out, <<>>),
                        NoDetails), TRUE)

-----------------------------------------------------------------------------
(* validate_gpu_operator_installation (lines 76-125) *)

(* IsGpuOperator comparing the name as it is spelled *)
IsGpuOperator_CaseSensitive(item) == Contains(GetOr(item.name, NoText), "gpu-operator")

(* "gpu-operator" in name.lower() *)
IsGpuOperator(item) == Contains(Lower(GetOr(item.name, NoText)), "gpu-operator")

GpuOperatorInstallation(r) ==
    LET k == <<"gpu_operator">> IN
    IF r.rc # 0
    THEN Returned(Entry(k, "failed", Msg(<<"Failed to get ClusterServiceVersions">>, <<>>),
                        Raw(r.err)), FALSE)
    ELSE IF r.out.t = "bad" THEN ParseFailed(k, r)
    ELSE IF r.out.t = "nonobj" THEN Raised("AttributeError")
    ELSE LET items == r.out.items
             hits == {i \in 1..Len(items) : IsGpuOperator(items[i])}
         IN IF hits = {}
            THEN Returned(Entry(k, "failed",
                                Msg(<<"GPU Operator not found in the specified namespace">>, <<>>),
                                NoDetails), FALSE)
            ELSE LET item == items[Min(hits)]
                     version == GetOr(item.version, <<"unknown">>)
                 IN Returned(Entry(k, "passed",
                                   Msg(<<"GPU Operator installed, version:">> \o version, <<>>),
                                   [kind |-> "csv", name |-> item.name,
                                    version |-> version]), TRUE)

-----------------------------------------------------------------------------
(* validate_gpu_operator_pods (lines 127-188) *)

(* reasons of the containers that are not ready (lines 155-160) *)
Reasons(containers) ==
    LET notReady == SelectSeq(containers, LAMBDA c : ~c.ready)
    IN [i \in 1..Len(notReady) |->
           GetOr(notReady[i].reason, <<"Unknown">>) \o <<": ">>
           \o GetOr(notReady[i].message, <<"No details available">>)]

Problematic(pods) ==
    LET bad == SelectSeq(pods, LAMBDA q : GetOr(q.phase, <<"Unknown">>) # <<"Running">>)
    IN [i \in 1..Len(bad) |->
           [name |-> GetOr(bad[i].name, <<"unknown">>),
            phase |-> GetOr(bad[i].phase, <<"Unknown">>),
            reasons |-> Reasons(bad[i].containers)]]

GpuOperatorPods(r) ==
    LET k == <<"gpu_operator_pods">> IN
    IF r.rc # 0
    THEN Returned(Entry(k, "failed", Msg(<<"Failed to get pods">>, <<>>), Raw(r.err)),
                  FALSE)
    ELSE IF r.out.t = "bad" THEN ParseFailed(k, r)
    ELSE IF r.out.t = "nonobj" THEN Raised("AttributeError")
    ELSE LET bad == Problematic(r.out.items)
         IN IF Len(bad) > 0
            THEN Returned(Entry(k, "failed",
                                Msg(<<"Found", "#", "problematic pods">>, <<Len(bad)>>),
                                [kind |-> "pods", pods |-> bad]), FALSE)
            ELSE Returned(Entry(k, "passed",
                                Msg(<<"All pods in namespace are running">>, <<>>),
                                NoDetails), TRUE)

-----------------------------------------------------------------------------
(* Node items: name (metadata.name), gpu (status.capacity["nvidia.com/gpu"],
   a decimal string), labels (the keys of metadata.labels) *)

NodeName(node) == GetOr(node.name, <<"unknown">>)

(* capacity.get("nvidia.com/gpu", "0") *)
GpuCount(node) == GetOr(node.gpu, <<"0">>)

(* nvidia_gpu_count and int(nvidia_gpu_count) > 0 raises ValueError when the
   count is a non-empty string int() rejects (lines 218, 693) *)
GpuTestRaises(node) == Truthy(GpuCount(node)) /\ ~IntOk(GpuCount(node))

(* HasGpus with >= in place of > *)
HasGpus_ZeroCounts(node) == Truthy(GpuCount(node)) /\ IntOf(GpuCount(node)) >= 0

HasGpus(node) == Truthy(GpuCount(node)) /\ IntOf(GpuCount(node)) > 0

-----------------------------------------------------------------------------
(* validate_node_gpu_status (lines 190-253) *)

NodeGpuStatus(r) ==
    LET k == <<"node_gpu_status">> IN
    IF r.rc # 0
    THEN Returned(Entry(k, "failed", Msg(<<"Failed to get nodes information">>, <<>>),
                        Raw(r.err)), FALSE)
    ELSE IF r.out.t = "bad" THEN ParseFailed(k, r)
    ELSE IF r.out.t = "nonobj" THEN Raised("AttributeError")
    ELSE LET ns == r.out.items IN
         IF \E i \in 1..Len(ns) : GpuTestRaises(ns[i]) THEN Raised("ValueError")
         ELSE LET with == SelectSeq(ns, HasGpus)
                  without == SelectSeq(ns, LAMBDA n : ~HasGpus(n))
                  nodes_with_gpus ==
                      [i \in 1..Len(with) |->
                          [name |-> NodeName(with[i]), gpu_count |-> GpuCount(with[i])]]
                  nodes_without_gpus ==
                      [i \in 1..Len(without) |-> NodeName(without[i])]
              IN IF Len(with) = 0
                 THEN Returned(Entry(k, "failed",
                                     Msg(<<"No nodes with GPUs found in the cluster">>, <<>>),
                                     [kind |-> "no_gpus", nodes_checked |-> Len(ns),
                                      nodes_without_gpus |-> nodes_without_gpus]), FALSE)
                 ELSE Returned(Entry(k, "passed",
                                     Msg(<<"Found", "#", "nodes with GPUs">>, <<Len(with)>>),
                                     [kind |-> "gpus",
                                      nodes_with_gpus |-> nodes_with_gpus,
                                      nodes_without_gpus |-> nodes_without_gpus]), TRUE)

-----------------------------------------------------------------------------
(* validate_gpu_feature_discovery (lines 255-349) *)

(* expected_labels (lines 291-297), in order *)
ExpectedLabels ==
    <<"feature.node.kubernetes.io/pci-10de.present", "nvidia.com/gpu.present",
      "nvidia.com/gpu.count", "nvidia.com/gpu.product", "nvidia.com/gpu.memory">>

(* GfdSkips skipping no node *)
GfdSkips_Never(node) == FALSE

(* int(nvidia_gpu_count) == 0 (line 283): int() raises on any string it rejects *)
GfdRaises(node) == ~IntOk(GpuCount(node))

GfdSkips(node) == IntOf(GpuCount(node)) = 0

MissingLabels(node) == SelectSeq(ExpectedLabels, LAMBDA l : l \notin node.labels)

GpuLabels(node) == SelectSeq(ExpectedLabels, LAMBDA l : l \in node.labels)

GpuFeatureDiscovery(r) ==
    LET k == <<"gpu_feature_discovery">> IN
    IF r.rc # 0
    THEN Returned(Entry(k, "failed", Msg(<<"Failed to get nodes information">>, <<>>),
                        Raw(r.err)), FALSE)
    ELSE IF r.out.t = "bad" THEN ParseFailed(k, r)
    ELSE IF r.out.t = "nonobj" THEN Raised("AttributeError")
    ELSE LET ns == r.out.items IN
         IF \E i \in 1..Len(ns) : GfdRaises(ns[i]) THEN Raised("ValueError")
         ELSE LET gpu == SelectSeq(ns, LAMBDA n : ~GfdSkips(n))
                  missing == SelectSeq(gpu, LAMBDA n : Len(MissingLabels(n)) > 0)
                  complete == SelectSeq(gpu, LAMBDA n : Len(MissingLabels(n)) = 0)
                  nodes_missing_labels ==
                      [i \in 1..Len(missing) |->
                          [name |-> NodeName(missing[i]),
                           missing_labels |-> MissingLabels(missing[i]),
                           existing_gpu_labels |-> GpuLabels(missing[i])]]
                  nodes_with_gpu_labels ==
                      [i \in 1..Len(complete) |->
                          [name |-> NodeName(complete[i]),
                           gpu_labels |-> GpuLabels(complete[i])]]
              IN IF Len(missing) > 0
                 THEN Returned(Entry(k, "failed",
                                     Msg(<<"Found", "#", "nodes with missing GPU feature labels">>,
                                         <<Len(missing)>>),
                                     [kind |-> "labels",
                                      nodes_with_complete_labels |-> nodes_with_gpu_labels,
                                      nodes_with_missing_labels |-> nodes_missing_labels]),
                               FALSE)
                 ELSE IF Len(complete) = 0
                 THEN Returned(Entry(k, "failed",
                                     Msg(<<"No nodes with GPU feature labels found">>, <<>>),
                                     NoDetails), FALSE)
                 ELSE Returned(Entry(k, "passed",
                                     Msg(<<"Found", "#", "nodes with proper GPU feature labels">>,
                                         <<Len(complete)>>),
                                     [kind |-> "nodes", nodes |-> nodes_with_gpu_labels]),
                               TRUE)

-----------------------------------------------------------------------------
(* validate_driver_daemonset (lines 351-427) *)

(* "nvidia-driver" in name.lower() *)
IsDriverDs(ds) == Contains(Lower(GetOr(ds.name, NoText)), "nvidia-driver")

(* DsVerdict without the test for a daemonset that is scheduled nowhere *)
DsVerdict_NoZeroCheck(ready_count, desired_count) ==
    IF ready_count < desired_count THEN "not_ready" ELSE "ready"

(* the tests of lines 389 and 396 on the counts of the driver daemonset *)
DsVerdict(ready_count, desired_count) ==
    IF desired_count = 0 THEN "unscheduled"
    ELSE IF ready_count < desired_count THEN "not_ready"
    ELSE "ready"

DsDetails(ds) ==
    [kind |-> "ds", name |-> GetOr(ds.name, NoText), desired |-> GetNum(ds.desired),
     current |-> GetNum(ds.current), ready |-> GetNum(ds.ready)]

DriverDaemonset(r) ==
    LET k == <<"driver_daemonset">> IN
    IF r.rc # 0
    THEN Returned(Entry(k, "failed", Msg(<<"Failed to get daemonsets">>, <<>>),
                        Raw(r.err)), FALSE)
    ELSE IF r.out.t = "bad" THEN ParseFailed(k, r)
    ELSE IF r.out.t = "nonobj" THEN Raised("AttributeError")
    ELSE LET dss == r.out.items
             hits == {i \in 1..Len(dss) : IsDriverDs(dss[i])}
         IN IF hits = {}
            THEN Returned(Entry(k, "failed",
                                Msg(<<"NVIDIA driver daemonset not found">>, <<>>),
                                NoDetails), FALSE)
            ELSE LET ds == dss[Min(hits)]
                     desired_count == GetNum(ds.desired)
                     ready_count == GetNum(ds.ready)
                     verdict == DsVerdict(ready_count, desired_count)
                 IN IF verdict = "unscheduled"
                    THEN Returned(Entry(k, "failed",
                                        Msg(<<"NVIDIA driver daemonset exists but is not scheduled on any nodes">>,
                                            <<>>),
                                        NoDetails), FALSE)
                    ELSE IF verdict = "not_ready"
                    THEN Returned(Entry(k, "failed",
                                        Msg(<<"NVIDIA driver daemonset not fully ready:", "#", "/", "#", "ready">>,
                                            <<ready_count, desired_count>>),
                                        DsDetails(ds)), FALSE)
                    ELSE Returned(Entry(k, "passed",
                                        Msg(<<"NVIDIA driver daemonset is running properly:", "#", "/", "#", "ready">>,
                                            <<ready_count, desired_count>>),
                                        DsDetails(ds)), TRUE)

-----------------------------------------------------------------------------
(* validate_gpu_workload (lines 429-546) *)

(* a pod document: status.phase, status.containerStatuses and, for each
   container of spec.containers, its nvidia.com/gpu limit and request; a
   document without spec.containers behaves as one with a single container
   that has no resources (the default [{}] of line 475) *)
PodObj(ph, statuses, containers) ==
    [t |-> "obj", raw |-> <<"{..}">>, items |-> <<>>, phase |-> ph,
     statuses |-> statuses, containers |-> containers]

(* gpu_errors (lines 507-513), in order *)
GpuErrors ==
    <<"CUDA_ERROR_NOT_INITIALIZED", "CUDA_ERROR_NO_DEVICE", "Failed to initialize NVML",
      "no CUDA-capable device is detected", "NVIDIA-SMI has failed">>

FoundErrors(out) == SelectSeq(GpuErrors, LAMBDA e : Contains(out, e))

GpuLimit(pod) == GetOr(pod.containers[1].limit, <<"0">>)

GpuRequest(pod) == GetOr(pod.containers[1].request, <<"0">>)

(* GpuWorkload fetching the logs of a pod in any phase *)
WorkloadReadsLogs_AnyPhase(rp) ==
    /\ rp.rc = 0
    /\ rp.out.t = "obj"
    /\ rp.out.containers # <<>>
    /\ ~(GpuLimit(rp.out) = <<"0">> /\ GpuRequest(rp.out) = <<"0">>)

(* whether the call goes on to oc logs (line 490) *)
WorkloadReadsLogs(rp) ==
    /\ rp.rc = 0
    /\ rp.out.t = "obj"
    /\ GetOr(rp.out.phase, <<"Unknown">>) = <<"Running">>
    /\ rp.out.containers # <<>>
    /\ ~(GpuLimit(rp.out) = <<"0">> /\ GpuRequest(rp.out) = <<"0">>)

(* the commands of one call *)
WorkloadCmds(t, rp) ==
    <<(<<"oc", "get", "pod">> \o t.pod_name \o <<"-n">> \o t.namespace)>>
    \o IF WorkloadReadsLogs(rp)
       THEN <<(<<"oc", "logs">> \o t.pod_name \o <<"-n">> \o t.namespace)>>
       ELSE <<>>

(* t: namespace and pod_name; rp: the response to oc get pod; rl: the
   response to oc logs, read when the call gets that far *)
GpuWorkload(t, rp, rl) ==
    LET k == <<"gpu_workload">> IN
    IF rp.rc # 0
    THEN Returned(Entry(k, "failed",
                        Msg(<<"Failed to get pod">> \o t.pod_name \o <<"in namespace">>
                            \o t.namespace, <<>>),
                        Raw(rp.err)), FALSE)
    ELSE IF rp.out.t = "bad" THEN ParseFailed(k, rp)
    ELSE IF rp.out.t = "nonobj" THEN Raised("AttributeError")
    ELSE LET pod == rp.out
             ph == GetOr(pod.phase, <<"Unknown">>)
         IN IF ph # <<"Running">>
            THEN Returned(Entry(k, "failed",
                                Msg(<<"GPU workload pod">> \o t.pod_name
                                    \o <<"is not running (status:">> \o ph, <<>>),
                                [kind |-> "reasons", reasons |-> Reasons(pod.statuses)]),
                          FALSE)
            ELSE IF pod.containers = <<>> THEN Raised("IndexError")
            ELSE IF GpuLimit(pod) = <<"0">> /\ GpuRequest(pod) = <<"0">>
            THEN Returned(Entry(k, "failed",
                                Msg(<<"Pod">> \o t.pod_name
                                    \o <<"is not requesting any GPUs">>, <<>>),
                                NoDetails), FALSE)
            ELSE IF rl.rc # 0
            THEN Returned(Entry(k, "warning",
                                Msg(<<"Pod">> \o t.pod_name
                                    \o <<"is running but could not retrieve logs">>, <<>>),
                                [kind |-> "no_logs", gpu_limit |-> GpuLimit(pod),
                                 gpu_request |-> GpuRequest(pod), log_error |-> rl.err]),
                          TRUE)
            ELSE IF Len(FoundErrors(rl.out)) > 0
            THEN Returned(Entry(k, "failed",
                                Msg(<<"Pod">> \o t.pod_name
                                    \o <<"has GPU-related errors in logs">>, <<>>),
                                [kind |-> "errors", errors |-> FoundErrors(rl.out)]),
                          FALSE)
            ELSE Returned(Entry(k, "passed",
                                Msg(<<"GPU workload pod">> \o t.pod_name
                                    \o <<"is running correctly">>, <<>>),
                                [kind |-> "gpu", gpu_limit |-> GpuLimit(pod),
                                 gpu_request |-> GpuRequest(pod)]), TRUE)

-----------------------------------------------------------------------------
(* Gateway responses of the collection queries *)

SeqsUpTo(S, n) == UNION {[1..m -> S] : m \in 0..n}

Failing(err) == Resp(1, Obj(<<>>), err)

(* the responses to one JSON query, given the item lists it may hold *)
JsonResponses(itemLists, err) ==
    {Failing(err)} \cup {Resp(0, d, NoText) : d \in {Unparseable, NotAnObject}}
    \cup {Resp(0, Obj(items), NoText) : items \in itemLists}

WhoamiResponses ==
    {Resp(0, <<"kube:admin">>, NoText), Resp(1, NoText, <<"whoami: unauthorized">>)}

CsvItems ==
    {[name |-> <<"gpu-operator", "-certified.v24.3.0">>, version |-> <<"24.3.0">>],
     [name |-> <<"GPU-Operator">>, version |-> <<"23.9.1">>],
     [name |-> <<"gpu-operator", "-certified">>, version |-> Absent],
     [name |-> <<"nfd">>, version |-> <<"4.14.0">>],
     [name |-> Absent, version |-> Absent]}

CsvErr == <<"get csv: forbidden">>

CsvResponses == JsonResponses(SeqsUpTo(CsvItems, MaxItems), CsvErr)

Waiting == [ready |-> FALSE, reason |-> <<"ImagePullBackOff">>, message |-> Absent]

PodItems ==
    {[name |-> <<"gpu-operator-1">>, phase |-> <<"Running">>, containers |-> <<>>],
     [name |-> <<"nvidia-driver-daemonset-x">>, phase |-> <<"Pending">>,
      containers |-> <<Waiting>>],
     [name |-> Absent, phase |-> Absent, containers |-> <<>>]}

PodsErr == <<"get pods: forbidden">>

PodsResponses == JsonResponses(SeqsUpTo(PodItems, MaxItems), PodsErr)

AllLabels == {ExpectedLabels[i] : i \in 1..Len(ExpectedLabels)}

NodeItems ==
    {[name |-> <<"node1", "a">>, gpu |-> <<"2">>, labels |-> AllLabels],
     [name |-> <<"node1", "b">>, gpu |-> <<"1">>,
      labels |-> AllLabels \ {"nvidia.com/gpu.product"}],
     [name |-> <<"node2">>, gpu |-> <<"0">>, labels |-> {}],
     [name |-> Absent, gpu |-> Absent, labels |-> {}],
     [name |-> <<"node2">>, gpu |-> <<"a", "b", "c">>, labels |-> AllLabels],
     [name |-> <<"node2">>, gpu |-> <<>>, labels |-> AllLabels]}

NodesErr == <<"get nodes: forbidden">>

NodesResponses == JsonResponses(SeqsUpTo(NodeItems, MaxItems), NodesErr)

DsItems ==
    {[name |-> <<"nvidia-driver", "-daemonset">>, desired |-> 2, current |-> 2, ready |-> 2],
     [name |-> <<"nvidia-driver", "-daemonset">>, desired |-> 2, current |-> 2, ready |-> 1],
     [name |-> <<"NVIDIA-Driver">>, desired |-> 0, current |-> 0, ready |-> 0],
     [name |-> <<"nvidia-driver", "-daemonset">>, desired |-> AbsentNum,
      current |-> AbsentNum, ready |-> AbsentNum],
     [name |-> <<"gpu-feature-discovery">>, desired |-> 1, current |-> 1, ready |-> 1]}

DsErr == <<"get daemonset: forbidden">>

DsResponses == JsonResponses(SeqsUpTo(DsItems, MaxItems), DsErr)

Targets ==
    {[namespace |-> <<"ml">>, pod_name |-> <<"trainer-0">>],
     [namespace |-> <<"default">>, pod_name |-> <<"cuda-test">>]}

NoResources == [limit |-> Absent, request |-> Absent]

WorkloadPods ==
    {PodObj(<<"Running">>, <<>>, <<[limit |-> <<"1">>, request |-> <<"1">>]>>),
     PodObj(<<"Running">>, <<>>, <<[limit |-> Absent, request |-> <<"2">>]>>),
     PodObj(<<"Running">>, <<>>, <<NoResources>>),
     PodObj(<<"Running">>, <<>>, <<NoResources, [limit |-> <<"1">>, request |-> Absent]>>),
     PodObj(<<"Running">>, <<>>, <<>>),
     PodObj(<<"Pending">>, <<Waiting>>, <<[limit |-> <<"1">>, request |-> <<"1">>]>>),
     PodObj(Absent, <<>>, <<NoResources>>)}

WorkloadErr == <<"get pod: not found">>

PodQueryResponses ==
    {Failing(WorkloadErr)} \cup {Resp(0, d, NoText) : d \in {Unparseable, NotAnObject}}
    \cup {Resp(0, d, NoText) : d \in WorkloadPods}

LogsResponses ==
    {Resp(1, NoText, <<"logs: container creating">>),
     Resp(0, <<"epoch 1 done">>, NoText),
     Resp(0, <<"epoch 1", "CUDA_ERROR_NO_DEVICE">>, NoText),
     Resp(0, <<"NVIDIA-SMI has failed", "Failed to initialize NVML">>, NoText)}

(* The responses a whole run draws from: for each query a failing one, one
   that makes the probe pass and one the probe cannot digest. *)
RunCsvResponses ==
    {Failing(CsvErr), Resp(0, NotAnObject, NoText),
     Resp(0, Obj(<<[name |-> <<"gpu-operator", "-certified.v24.3.0">>,
                    version |-> <<"24.3.0">>]>>), NoText)}

RunPodsResponses ==
    {Failing(PodsErr), Resp(0, NotAnObject, NoText),
     Resp(0, Obj(<<[name |-> <<"gpu-operator-1">>, phase |-> <<"Running">>,
                    containers |-> <<>>]>>), NoText)}

RunNodesResponses ==
    {Failing(NodesErr),
     Resp(0, Obj(<<[name |-> <<"node1", "a">>, gpu |-> <<"a", "b", "c">>,
                    labels |-> AllLabels]>>), NoText),
     Resp(0, Obj(<<[name |-> <<"node1", "a">>, gpu |-> <<"2">>,
                    labels |-> AllLabels]>>), NoText)}

RunDsResponses ==
    {Failing(DsErr), Resp(0, NotAnObject, NoText),
     Resp(0, Obj(<<[name |-> <<"nvidia-driver", "-daemonset">>, desired |-> 2,
                    current |-> 2, ready |-> 2]>>), NoText)}

(* the inventories of the final query of a run *)
RunNodeItems ==
    [name : {<<"node1", "a">>, <<"node1", "b">>},
     gpu : {Absent, <<"0">>, <<"1">>, <<"a", "b", "c">>},
     labels : {AllLabels}]

(* a cluster holds no two nodes of the same name *)
DistinctNames(items) ==
    \A i, j \in 1..Len(items) : i # j => items[i].name # items[j].name

InventoryResponses ==
    JsonResponses({items \in SeqsUpTo(RunNodeItems, MaxNodes) : DistinctNames(items)},
                  NodesErr)

-----------------------------------------------------------------------------
(* run_all_validations (lines 663-698) *)

(* a probe called from run_all_validations: its command, its entry, and the
   next statement, or the way out when the probe raises *)
RunProbe(o, cmd, next) ==
    /\ cmds' = Append(cmds, cmd)
    /\ validation_results' =
           IF o.wrote THEN Put(validation_results, o.entry) ELSE validation_results
    /\ ret' = IF o.exc = "none" THEN o.ret ELSE ret
    /\ exc' = o.exc
    /\ pc' = IF o.exc = "none" THEN next ELSE "done"
    /\ UNCHANGED <<nodes, inventory, smiVars, last, calls, restVars>>

(* RunOcConnection without the early return *)
RunOcConnection_NoReturn ==
    /\ pc = "conn"
    /\ \E r \in WhoamiResponses :
        RunProbe(OcConnection(r), <<"oc", "whoami">>, "csv")

(* lines 665-667 *)
RunOcConnection ==
    /\ pc = "conn"
    /\ \E r \in WhoamiResponses :
        LET o == OcConnection(r)
        IN RunProbe(o, <<"oc", "whoami">>, IF o.ret THEN "csv" ELSE "done")

(* line 670 *)
RunGpuOperatorInstallation ==
    /\ pc = "csv"
    /\ \E r \in RunCsvResponses :
        RunProbe(GpuOperatorInstallation(r), <<"oc", "get", "csv">>, "pods")

(* line 671 *)
RunGpuOperatorPods ==
    /\ pc = "pods"
    /\ \E r \in RunPodsResponses :
        RunProbe(GpuOperatorPods(r), <<"oc", "get", "pods">>, "nodes")

(* line 672 *)
RunNodeGpuStatus ==
    /\ pc = "nodes"
    /\ \E r \in RunNodesResponses :
        RunProbe(NodeGpuStatus(r), <<"oc", "get", "nodes">>, "gfd")

(* line 673 *)
RunGpuFeatureDiscovery ==
    /\ pc = "gfd"
    /\ \E r \in RunNodesResponses :
        RunProbe(GpuFeatureDiscovery(r), <<"oc", "get", "nodes">>, "ds")

(* line 674 *)
RunDriverDaemonset ==
    /\ pc = "ds"
    /\ \E r \in RunDsResponses :
        RunProbe(DriverDaemonset(r), <<"oc", "get", "daemonset">>, "inventory")

(* lines 676-684 and 695-696: the final inventory query; only
   JSONDecodeError is caught *)
InventoryOutcome(r) ==
    IF r.rc # 0 THEN "return"
    ELSE IF r.out.t = "bad" THEN "return"
    ELSE IF r.out.t = "nonobj" THEN "AttributeError"
    ELSE "loop"

RunInventory ==
    /\ pc = "inventory"
    /\ \E r \in InventoryResponses :
        LET o == InventoryOutcome(r) IN
        /\ cmds' = Append(cmds, <<"oc", "get", "nodes">>)
        /\ nodes' = IF o = "loop" THEN r.out.items ELSE nodes
        /\ inventory' = IF o = "loop" THEN r.out.items ELSE inventory
        /\ pc' = IF o = "loop" THEN "loop" ELSE "done"
        /\ exc' = IF o \in {"loop", "return"} THEN exc ELSE o
    /\ UNCHANGED <<validation_results, ret, smiVars, last, calls, restVars>>

(* lines 686-694: what the loop body does with one item *)
NodeOutcome(node) ==
    IF GpuTestRaises(node) THEN "ValueError"
    ELSE IF HasGpus(node) THEN "check"
    ELSE "skip"

(* lines 686-694 and 698: the next item of the loop, or the return *)
RunLoop ==
    /\ pc = "loop"
    /\ IF nodes = <<>>
       THEN /\ pc' = "done"
            /\ UNCHANGED <<exc, nodes, smiPc, node_name>>
       ELSE LET o == NodeOutcome(Head(nodes)) IN
            /\ nodes' = Tail(nodes)
            /\ pc' = CASE o = "check" -> "smi" [] o = "skip" -> "loop" [] OTHER -> "done"
            /\ exc' = IF o \in {"check", "skip"} THEN exc ELSE o
            /\ smiPc' = IF o = "check" THEN "start" ELSE smiPc
            /\ node_name' = IF o = "check" THEN NodeName(Head(nodes)) ELSE node_name
    /\ UNCHANGED <<validation_results, cmds, temp_file, attempt, sleeps, phase,
                   return_code, stdout, stderr, smiExc, ret, created, deleted,
                   teardown, inventory, last, calls, restVars>>

(* what an exception of the per-node check does at lines 694-696: the
   except clause catches JSONDecodeError alone and ends the loop *)
Caught(x) == x = "JSONDecodeError"

(* line 694: validate_nvidia_smi_on_node has returned or raised, and its
   locals are gone *)
RunSmiDone ==
    /\ pc = "smi"
    /\ smiPc \in {"returned", "raised"}
    /\ IF smiPc = "returned"
       THEN pc' = "loop" /\ UNCHANGED exc
       ELSE /\ pc' = "done"
            /\ exc' = IF Caught(smiExc) THEN exc ELSE smiExc
    /\ smiPc' = "idle"
    /\ smiExc' = "none"
    /\ node_name' = <<>>
    /\ attempt' = 0
    /\ sleeps' = 0
    /\ phase' = "none"
    /\ return_code' = 0
    /\ stdout' = NoText
    /\ stderr' = NoText
    /\ teardown' = "none"
    /\ UNCHANGED <<validation_results, cmds, nodes, temp_file, ret, created,
                   deleted, inventory, last, calls, restVars>>

(* a fresh GPUValidator (lines 25-33) on which run_all_validations is called *)
Init ==
    /\ pc = "conn"
    /\ exc = "none"
    /\ validation_results = <<>>
    /\ cmds = <<>>
    /\ nodes = <<>>
    /\ smiPc = "idle"
    /\ node_name = <<>>
    /\ temp_file = NoPod
    /\ attempt = 0
    /\ sleeps = 0
    /\ phase = "none"
    /\ return_code = 0
    /\ stdout = NoText
    /\ stderr = NoText
    /\ smiExc = "none"
    /\ ret = FALSE
    /\ created = <<>>
    /\ deleted = <<>>
    /\ teardown = "none"
    /\ inventory = <<>>
    /\ last = NoCall
    /\ calls = 0
    /\ prev = NoCall
    /\ runs = 1
    /\ target = NoTarget
    /\ checks = <<>>
    /\ parse = NoParse

Next ==
    \/ RunOcConnection
    \/ RunGpuOperatorInstallation
    \/ RunGpuOperatorPods
    \/ RunNodeGpuStatus
    \/ RunGpuFeatureDiscovery
    \/ RunDriverDaemonset
    \/ RunInventory
    \/ RunLoop
    \/ RunSmiDone
    \/ SmiWriteManifest
    \/ SmiCreate
    \/ SmiPoll
    \/ SmiSleep
    \/ SmiExec
    \/ SmiDelete
    \/ SmiRecord

Spec == Init /\ [][Next]_vars

-----------------------------------------------------------------------------
(* The probes called one at a time on one validator, as the unit tests call
   them (gpu-validator-tests.py), each on any response of its query *)

(* the validator is idle and may be called once more *)
Callable == pc = "direct" /\ smiPc = "idle" /\ calls < MaxCalls

(* what the caller of a probe sees of the call *)
Called(name, key, r, shape, raw, o) ==
    [probe |-> name, key |-> key, rc |-> r.rc, shape |-> shape, err |-> r.err,
     raw |-> raw, items |-> IF shape = "text" THEN <<>> ELSE r.out.items,
     exc |-> o.exc, ret |-> o.ret]

CallProbe(name, key, r, shape, raw, o, cmd) ==
    /\ calls' = calls + 1
    /\ cmds' = Append(cmds, cmd)
    /\ validation_results' =
           IF o.wrote THEN Put(validation_results, o.entry) ELSE validation_results
    /\ ret' = IF o.exc = "none" THEN o.ret ELSE ret
    /\ exc' = o.exc
    /\ last' = Called(name, key, r, shape, raw, o)
                 @@ [resps |-> <<r>>, issued |-> <<cmd>>, entry |-> o.entry,
                     target |-> NoTarget]
    /\ prev' = last
    /\ UNCHANGED <<pc, nodes, inventory, smiVars, runs, target, checks, parse>>

CallOcConnection ==
    /\ Callable
    /\ \E r \in WhoamiResponses :
            CallProbe("validate_oc_connection", <<"oc_connection">>, r, "text", r.out,
                      OcConnection(r), <<"oc", "whoami">>)

CallGpuOperatorInstallation ==
    /\ Callable
    /\ \E r \in CsvResponses :
            CallProbe("validate_gpu_operator_installation", <<"gpu_operator">>, r,
                      r.out.t, r.out.raw, GpuOperatorInstallation(r), <<"oc", "get", "csv">>)

CallGpuOperatorPods ==
    /\ Callable
    /\ \E r \in PodsResponses :
            CallProbe("validate_gpu_operator_pods", <<"gpu_operator_pods">>, r,
                      r.out.t, r.out.raw, GpuOperatorPods(r), <<"oc", "get", "pods">>)

CallNodeGpuStatus ==
    /\ Callable
    /\ \E r \in NodesResponses :
            CallProbe("validate_node_gpu_status", <<"node_gpu_status">>, r,
                      r.out.t, r.out.raw, NodeGpuStatus(r), <<"oc", "get", "nodes">>)

CallGpuFeatureDiscovery ==
    /\ Callable
    /\ \E r \in NodesResponses :
            CallProbe("validate_gpu_feature_discovery", <<"gpu_feature_discovery">>, r,
                      r.out.t, r.out.raw, GpuFeatureDiscovery(r), <<"oc", "get", "nodes">>)

CallDriverDaemonset ==
    /\ Callable
    /\ \E r \in DsResponses :
            CallProbe("validate_driver_daemonset", <<"driver_daemonset">>, r,
                      r.out.t, r.out.raw, DriverDaemonset(r), <<"oc", "get", "daemonset">>)

(* validate_gpu_workload(namespace, pod_name) called directly: both of its
   commands, and the entry it writes *)
WorkloadCall(t, rp, rl) ==
    LET o == GpuWorkload(t, rp, rl) IN
    /\ cmds' = cmds \o WorkloadCmds(t, rp)
    /\ validation_results' =
           IF o.wrote THEN Put(validation_results, o.entry) ELSE validation_results
    /\ ret' = IF o.exc = "none" THEN o.ret ELSE ret
    /\ exc' = o.exc
    /\ last' = Called("validate_gpu_workload", <<"gpu_workload">>, rp, rp.out.t,
                      rp.out.raw, o)
                 @@ [resps |-> IF WorkloadReadsLogs(rp) THEN <<rp, rl>> ELSE <<rp>>,
                     issued |-> WorkloadCmds(t, rp), entry |-> o.entry, target |-> t]

CallGpuWorkload ==
    /\ Callable
    /\ \E t \in Targets, rp \in PodQueryResponses, rl \in LogsResponses :
            WorkloadCall(t, rp, rl)
    /\ calls' = calls + 1
    /\ prev' = last
    /\ UNCHANGED <<pc, nodes, inventory, smiVars, runs, target, checks, parse>>

(* a fresh GPUValidator whose probes are called directly *)
InitProbe ==
    /\ pc = "direct"
    /\ exc = "none"
    /\ validation_results = <<>>
    /\ cmds = <<>>
    /\ nodes = <<>>
    /\ smiPc = "idle"
    /\ node_name = <<>>
    /\ temp_file = NoPod
    /\ attempt = 0
    /\ sleeps = 0
    /\ phase = "none"
    /\ return_code = 0
    /\ stdout = NoText
    /\ stderr = NoText
    /\ smiExc = "none"
    /\ ret = FALSE
    /\ created = <<>>
    /\ deleted = <<>>
    /\ teardown = "none"
    /\ inventory = <<>>
    /\ last = NoCall
    /\ calls = 0
    /\ prev = NoCall
    /\ runs = 0
    /\ target = NoTarget
    /\ checks = <<>>
    /\ parse = NoParse

NextProbe ==
    \/ CallOcConnection
    \/ CallGpuOperatorInstallation
    \/ CallGpuOperatorPods
    \/ CallNodeGpuStatus
    \/ CallGpuFeatureDiscovery
    \/ CallDriverDaemonset
    \/ CallGpuWorkload

SpecProbe == InitProbe /\ [][NextProbe]_vars

-----------------------------------------------------------------------------
(* Properties *)

Finished == smiPc \in {"returned", "raised"}

StatusOf(k) == Get(validation_results, k).status

CountCmd(op) == Cardinality({i \in 1..Len(cmds) : cmds[i][1] = op})

ConnectionPassed ==
    Has(validation_results, <<"oc_connection">>) /\ StatusOf(<<"oc_connection">>) = "passed"

ConnectionFailed ==
    Has(validation_results, <<"oc_connection">>) /\ StatusOf(<<"oc_connection">>) = "failed"

(* C1: in validate_nvidia_smi_on_node no delete is ever issued when the
   create returned non-zero, and when the create returned zero the function
   ends with exactly one delete issued, for the debug pod. *)
C1_DeleteIffCreated ==
    /\ created = <<>> => deleted = <<>>
    /\ Len(deleted) <= 1
    /\ (Finished /\ created # <<>>) => deleted = <<DebugPodName(node_name)>>

(* C2: control never leaves validate_nvidia_smi_on_node with a created
   debug pod for which no delete was issued, on any exit path. *)
C2_NoLeakedPod ==
    Finished => \A i \in 1..Len(created) :
                    \E j \in 1..Len(deleted) : deleted[j] = created[i]

(* C3: when oc whoami fails, the run on a fresh validator ends with the
   single entry oc_connection, failed, and oc whoami is the only gateway
   command ever issued. *)
C3_ShortCircuit ==
    ConnectionFailed =>
        /\ pc = "done"
        /\ exc = "none"
        /\ KeyOrder(validation_results) = <<(<<"oc_connection">>)>>
        /\ cmds = <<(<<"oc", "whoami">>)>>
        /\ attempt = 0
        /\ created = <<>>

C3_Witness == pc = "done" /\ ConnectionFailed /\ Len(cmds) = 1

FixedKeys ==
    <<(<<"oc_connection">>), <<"gpu_operator">>, <<"gpu_operator_pods">>,
      <<"node_gpu_status">>, <<"gpu_feature_discovery">>, <<"driver_daemonset">>>>

FixedCmds ==
    <<(<<"oc", "whoami">>), <<"oc", "get", "csv">>, <<"oc", "get", "pods">>,
      <<"oc", "get", "nodes">>, <<"oc", "get", "nodes">>, <<"oc", "get", "daemonset">>>>

(* C4: a run whose connectivity probe passed has, when it ends, executed
   the six probes once each in the fixed order before anything else, and its
   ledger lists the six fixed entries in that order, followed by nvidia_smi
   entries only. *)
C4_FixedOrder ==
    (pc = "done" /\ ConnectionPassed) =>
        /\ Len(cmds) >= 6
        /\ SubSeq(cmds, 1, 6) = FixedCmds
        /\ Len(validation_results) >= 6
        /\ SubSeq(KeyOrder(validation_results), 1, 6) = FixedKeys
        /\ \A i \in 7..Len(validation_results) :
               validation_results[i].name[1] = "nvidia_smi_"

(* C5: after a run whose connectivity probe passed, the ledger holds an
   entry for each of the five stateless probes, whatever the outcome of the
   probes before it. *)
C5_AllFiveRecorded ==
    (pc = "done" /\ ConnectionPassed) =>
        \A i \in 2..6 : Has(validation_results, FixedKeys[i])

(* C6: a probe called on any gateway response returns normally, and on a
   non-zero exit, on unparseable output and on a document of an unexpected
   shape it records a failed result under its name, with the raw diagnostic
   text (stderr, or the unparseable stdout) as details. *)
C6_ProbeNeverRaises ==
    last.probe # "none" =>
        /\ last.exc = "none"
        /\ Has(validation_results, last.key)
        /\ last.rc # 0 =>
               /\ StatusOf(last.key) = "failed"
               /\ Get(validation_results, last.key).details = Raw(last.err)
        /\ (last.rc = 0 /\ last.shape = "bad") =>
               /\ StatusOf(last.key) = "failed"
               /\ Get(validation_results, last.key).details = Raw(last.raw)
        /\ (last.rc = 0 /\ last.shape = "nonobj") => StatusOf(last.key) = "failed"

(* the signature of a healthy nvidia-smi output: the banner and a driver
   version the pattern extracts *)
Signature(out) == Contains(out, "NVIDIA-SMI") /\ VersionMatches(out) # {}

ExtractedVersion(out) == out[Min(VersionMatches(out)) + 2]

(* C7: when validate_nvidia_smi_on_node has returned, the status it
   recorded is passed only if the exec exited 0 and its output holds the
   banner and an extractable driver version, which is then
   details.driver_version; in every other case the status is failed. *)
C7_PassedOnlyWithVersion ==
    smiPc = "returned" =>
        /\ Has(validation_results, SmiKey(node_name))
        /\ IF created # <<>> /\ return_code = 0 /\ Signature(stdout)
           THEN /\ StatusOf(SmiKey(node_name)) = "passed"
                /\ Get(validation_results, SmiKey(node_name)).details.driver_version
                       = ExtractedVersion(stdout)
           ELSE StatusOf(SmiKey(node_name)) = "failed"

(* C8: when the exec exited 0 and its output lacks the signature, the
   recorded status is failed, the function returns False and details is the
   raw output. *)
C8_NoSignatureFails ==
    (smiPc = "returned" /\ created # <<>> /\ return_code = 0 /\ ~Signature(stdout)) =>
        /\ Has(validation_results, SmiKey(node_name))
        /\ StatusOf(SmiKey(node_name)) = "failed"
        /\ ret = FALSE
        /\ Get(validation_results, SmiKey(node_name)).details = Raw(stdout)

(* the polling loop has been left for the exec *)
PastPolling ==
    smiPc \in {"exec", "delete", "record"} \/ (smiPc = "returned" /\ created # <<>>)

C9_Bounded ==
    /\ attempt <= PollAttempts
    /\ sleeps <= attempt
    /\ PastPolling => (phase = "Running" \/ attempt = PollAttempts)
    /\ phase = "Running" => (PastPolling /\ sleeps = attempt - 1)

C9_StopsAtRunning == phase = "Running" => (attempt' = attempt /\ sleeps' = sleeps)

C9_FailedQueryCounts ==
    (smiPc = "poll" /\ attempt' = attempt + 1 /\ return_code' # 0) =>
        (smiPc' = "sleep" /\ phase' = phase)

(* C9: the polling loop issues at most 30 phase queries and the check always
   comes to an end; the loop is left only at the first query that reports
   Running or after the 30th query, no phase query and no sleep follows a
   query that reported Running, and a phase query that exits non-zero counts
   as an attempt and is followed by the sleep, not by the exec. *)
C9_PollingLoop ==
    /\ []C9_Bounded
    /\ [][C9_StopsAtRunning /\ C9_FailedQueryCounts]_vars
    /\ <>Finished

C9_Witness ==
    /\ smiPc = "returned"
    /\ phase = "Running"
    /\ attempt = 3
    /\ sleeps = 2
    /\ return_code = 0

(* C10: when 30 phase queries were issued and none reported Running, the
   check ends with the exec issued exactly once and a status decided by the
   exec's exit status and output alone. *)
C10_ExecAfterTimeout ==
    (Finished /\ attempt = PollAttempts /\ phase # "Running") =>
        /\ CountCmd("exec") = 1
        /\ Has(validation_results, SmiKey(node_name))
        /\ StatusOf(SmiKey(node_name)) = "passed" <=>
               (return_code = 0 /\ ExpectedOutput(stdout))

(* the create of a stand-alone check was issued and returned non-zero *)
CreateFailed == smiPc \notin {"idle", "start", "create"} /\ created = <<>>

(* C11: once the create has failed, validate_nvidia_smi_on_node has
   returned False with a failed entry for nvidia_smi_<node> whose details are
   the create's stderr, and the create is the only command it issued: no
   phase query, no sleep, no exec and no delete. *)
C11_CreateFailureEndsCheck ==
    CreateFailed =>
        /\ smiPc = "returned"
        /\ smiExc = "none"
        /\ ret = FALSE
        /\ KeyOrder(validation_results) = <<SmiKey(node_name)>>
        /\ StatusOf(SmiKey(node_name)) = "failed"
        /\ Get(validation_results, SmiKey(node_name)).details = Raw(stderr)
        /\ return_code # 0
        /\ cmds = <<(<<"create">> \o DebugPodName(node_name))>>
        /\ attempt = 0
        /\ sleeps = 0
        /\ deleted = <<>>
        /\ teardown = "none"

C11_Witness ==
    /\ CreateFailed
    /\ smiPc = "returned"
    /\ node_name = <<"node1", "b">>
    /\ Get(validation_results, SmiKey(node_name)).details = Raw(<<"create: forbidden">>)

(* the verdict the exec outcome alone calls for (lines 625 and 634) *)
ExecVerdict == IF return_code = 0 /\ ExpectedOutput(stdout) THEN "passed" ELSE "failed"

C12_SameVerdict ==
    teardown # "none" =>
        /\ smiExc = "none"
        /\ smiPc \in {"record", "returned"}
        /\ smiPc = "returned" =>
               /\ Has(validation_results, SmiKey(node_name))
               /\ StatusOf(SmiKey(node_name)) = ExecVerdict
               /\ ret = (ExecVerdict = "passed")

(* C12: once the delete has been issued, whether it succeeded or failed,
   the check raises nothing and goes on to return; the status it records and
   the value it returns are those the exec's exit status and output call
   for, the same after a failed delete as after a successful one. *)
C12_DeleteDoesNotDecide ==
    /\ []C12_SameVerdict
    /\ (teardown = "failed") ~> (smiPc = "returned")
    /\ (teardown = "ok") ~> (smiPc = "returned")

C12_Witness ==
    /\ smiPc = "returned"
    /\ teardown = "failed"
    /\ StatusOf(SmiKey(node_name)) = "passed"
    /\ ret = TRUE

(* the fields of a ledger entry and of its details *)
FieldsOf(e) == DOMAIN e \cup DOMAIN e.details

(* C13: a result recorded after a failed delete carries a record of the
   teardown failure, which sets it apart from the result the same exec
   outcome gives after a successful delete. *)
C13_TeardownFailureRecorded ==
    (smiPc = "returned" /\ teardown = "failed") =>
        LET e == Get(validation_results, SmiKey(node_name)) IN
        /\ "teardown" \in FieldsOf(e)
        /\ e # SmiEntry(node_name, return_code, stdout, stderr)

(* a node whose nvidia.com/gpu capacity is a number greater than 0 *)
IsGpuNode(node) == IntOk(GpuCount(node)) /\ IntOf(GpuCount(node)) > 0

GpuNodesOf(items) == SelectSeq(items, IsGpuNode)

(* items of the final inventory the loop of lines 686-694 has taken up *)
Visited == Len(inventory) - Len(nodes)

(* the final inventory query of a run returned a list of nodes, each with a
   numeric nvidia.com/gpu capacity or none *)
InventoryRead ==
    /\ ConnectionPassed
    /\ inventory # <<>>
    /\ \A i \in 1..Len(inventory) : IntOk(GpuCount(inventory[i]))

(* C14: in a run whose connectivity probe passed and whose final inventory
   query succeeded, the per-node check is only ever running for an inventory
   node of capacity > 0, no more debug pods were submitted than there are
   such nodes among those taken up, and when the run ends the check was
   invoked once for every node of capacity > 0. *)
C14_OncePerGpuNode ==
    InventoryRead =>
        /\ pc = "smi" => IsGpuNode(inventory[Visited])
        /\ CountCmd("create") <= Len(GpuNodesOf(SubSeq(inventory, 1, Visited)))
        /\ pc = "done" => CountCmd("create") = Len(GpuNodesOf(inventory))

(* positions of the per-node entries of the ledger *)
SmiEntries ==
    {i \in 1..Len(validation_results) : validation_results[i].name[1] = "nvidia_smi_"}

(* C15: when a run over an inventory with k nodes of capacity > 0 ends, the
   ledger holds the six fixed entries followed by k per-node entries, one
   under the key of each such node: no per-node result took the place of
   another node's result or of a fixed entry. *)
C15_NoCollision ==
    (pc = "done" /\ InventoryRead) =>
        /\ SubSeq(KeyOrder(validation_results), 1, 6) = FixedKeys
        /\ SmiEntries = 7..Len(validation_results)
        /\ Cardinality(SmiEntries) = Len(GpuNodesOf(inventory))
        /\ \A i \in 1..Len(inventory) :
               IsGpuNode(inventory[i]) =>
                   Has(validation_results, SmiKey(NodeName(inventory[i])))

(* C16: whatever happened during the checks of the nodes before it, every
   node of capacity > 0 in the inventory is taken up by the loop and ends
   with an entry in the ledger: the run ends with no exception, no inventory
   node left over and an nvidia_smi entry for every such node. *)
C16_FailureStaysLocal ==
    (pc = "done" /\ InventoryRead) =>
        /\ exc = "none"
        /\ nodes = <<>>
        /\ \A i \in 1..Len(inventory) :
               IsGpuNode(inventory[i]) =>
                   /\ Has(validation_results, SmiKey(NodeName(inventory[i])))
                   /\ StatusOf(SmiKey(NodeName(inventory[i]))) \in {"passed", "failed"}

(* C17: the name given to the debug pod of a node is the name the function
   derives from that node, and no other node name yields the same debug pod
   name. *)
C17_DistinctPodNames ==
    smiPc \notin {"idle", "start"} =>
        /\ temp_file.name = DebugPodName(node_name)
        /\ \A other \in NodeNames \ {node_name} : DebugPodName(other) # temp_file.name

(* the latest call was this probe, on a response that parsed to an object *)
CalledOnObject(name) ==
    last.probe = name /\ last.rc = 0 /\ last.shape = "obj"

(* C18: after validate_driver_daemonset on a daemonset list, with the first
   daemonset whose name contains nvidia-driver: numberReady below
   desiredNumberScheduled gives failed and a message holding ready/desired;
   numberReady equal to desiredNumberScheduled, above 0, gives passed;
   desiredNumberScheduled 0 gives failed; and with no such daemonset in the
   list the status is failed. *)
C18_DaemonsetVerdict ==
    CalledOnObject("validate_driver_daemonset") =>
        LET dss == last.items
            hits == {i \in 1..Len(dss) : IsDriverDs(dss[i])}
        IN /\ last.exc = "none"
           /\ Has(validation_results, <<"driver_daemonset">>)
           /\ LET e == Get(validation_results, <<"driver_daemonset">>) IN
              IF hits = {} THEN e.status = "failed" /\ ~last.ret
              ELSE LET ds == dss[Min(hits)]
                       ready == GetNum(ds.ready)
                       desired == GetNum(ds.desired)
                   IN /\ ready < desired =>
                             /\ e.status = "failed"
                             /\ e.message.nums = <<ready, desired>>
                             /\ Contains(e.message.words, "/")
                      /\ (ready = desired /\ desired > 0) => e.status = "passed"
                      /\ desired = 0 => e.status = "failed"
                      /\ last.ret = (e.status = "passed")

C18_Witness ==
    /\ CalledOnObject("validate_driver_daemonset")
    /\ Len(last.items) = 2
    /\ ~IsDriverDs(last.items[1])
    /\ GetNum(last.items[2].ready) = 1
    /\ GetNum(last.items[2].desired) = 2
    /\ StatusOf(<<"driver_daemonset">>) = "failed"
    /\ Get(validation_results, <<"driver_daemonset">>).message.nums = <<1, 2>>

(* an inventory of node descriptors: every nvidia.com/gpu capacity is a
   count, or the key is absent *)
WellFormed(items) == \A i \in 1..Len(items) : IntOk(GpuCount(items[i]))

NamesOf(items) == [i \in 1..Len(items) |-> NodeName(items[i])]

LacksLabel(node) == \E l \in AllLabels : l \notin node.labels

(* the complete-labels list and the missing-labels list of an entry of the
   feature-label probe, as node names; a list the details do not hold is empty *)
CompleteList(e) ==
    CASE e.details.kind = "labels" ->
             [i \in 1..Len(e.details.nodes_with_complete_labels) |->
                 e.details.nodes_with_complete_labels[i].name]
      [] e.details.kind = "nodes" ->
             [i \in 1..Len(e.details.nodes) |-> e.details.nodes[i].name]
      [] OTHER -> <<>>

MissingList(e) ==
    CASE e.details.kind = "labels" ->
             [i \in 1..Len(e.details.nodes_with_missing_labels) |->
                 e.details.nodes_with_missing_labels[i].name]
      [] OTHER -> <<>>

(* C19: after validate_gpu_feature_discovery on an inventory, the two lists
   and the status are those of the nodes of capacity > 0 alone: the missing
   list holds exactly the nodes of capacity > 0 that lack one of the five
   expected labels, the complete list exactly the other nodes of
   capacity > 0, and a node of capacity 0 or without the capacity key is in
   neither list and leaves both lists and the status as they are. *)
C19_ZeroCapacityNodesIgnored ==
    (CalledOnObject("validate_gpu_feature_discovery") /\ WellFormed(last.items)) =>
        LET gpu == GpuNodesOf(last.items)
            missing == SelectSeq(gpu, LacksLabel)
            complete == SelectSeq(gpu, LAMBDA n : ~LacksLabel(n))
        IN /\ last.exc = "none"
           /\ Has(validation_results, <<"gpu_feature_discovery">>)
           /\ LET e == Get(validation_results, <<"gpu_feature_discovery">>) IN
              /\ MissingList(e) = NamesOf(missing)
              /\ CompleteList(e) = NamesOf(complete)
              /\ e.status = IF Len(missing) = 0 /\ Len(complete) > 0
                            THEN "passed" ELSE "failed"

C19_Witness ==
    /\ CalledOnObject("validate_gpu_feature_discovery")
    /\ Len(last.items) = 2
    /\ GpuCount(last.items[1]) = <<"0">>
    /\ IsGpuNode(last.items[2])
    /\ LacksLabel(last.items[2])
    /\ MissingList(Get(validation_results, <<"gpu_feature_discovery">>))
           = <<NodeName(last.items[2])>>
    /\ CompleteList(Get(validation_results, <<"gpu_feature_discovery">>)) = <<>>

(* the status the node GPU inventory probe owes an inventory *)
InventoryStatus(items) == IF Len(GpuNodesOf(items)) > 0 THEN "passed" ELSE "failed"

NonGpuNodesOf(items) == SelectSeq(items, LAMBDA n : ~IsGpuNode(n))

(* details holds the two lists, and they are the nodes of capacity > 0 and
   the other nodes of the inventory *)
TwoListsPartition(e, items) ==
    /\ {"nodes_with_gpus", "nodes_without_gpus"} \subseteq DOMAIN e.details
    /\ [i \in 1..Len(e.details.nodes_with_gpus) |-> e.details.nodes_with_gpus[i].name]
           = NamesOf(GpuNodesOf(items))
    /\ e.details.nodes_without_gpus = NamesOf(NonGpuNodesOf(items))
    /\ Len(e.details.nodes_with_gpus) + Len(e.details.nodes_without_gpus) = Len(items)

(* C20 as stated: after validate_node_gpu_status on an inventory the status
   is passed exactly when some node has capacity > 0, and details holds
   nodes_with_gpus, exactly the nodes of capacity > 0, and
   nodes_without_gpus, exactly the others. *)
C20_ListsPartition ==
    (CalledOnObject("validate_node_gpu_status") /\ WellFormed(last.items)) =>
        /\ last.exc = "none"
        /\ Has(validation_results, <<"node_gpu_status">>)
        /\ LET e == Get(validation_results, <<"node_gpu_status">>) IN
           /\ e.status = InventoryStatus(last.items)
           /\ TwoListsPartition(e, last.items)

(* C20, amended: the status is passed exactly when some node has
   capacity > 0; a passed result holds the two lists, which partition the
   inventory; a failed result holds no nodes_with_gpus list but
   nodes_checked, the number of nodes, and nodes_without_gpus, every node of
   the inventory. *)
C20_ListsPartitionWhenPassed ==
    (CalledOnObject("validate_node_gpu_status") /\ WellFormed(last.items)) =>
        /\ last.exc = "none"
        /\ Has(validation_results, <<"node_gpu_status">>)
        /\ LET e == Get(validation_results, <<"node_gpu_status">>) IN
           /\ e.status = InventoryStatus(last.items)
           /\ last.ret = (e.status = "passed")
           /\ IF e.status = "passed"
              THEN TwoListsPartition(e, last.items)
              ELSE /\ DOMAIN e.details = {"kind", "nodes_checked", "nodes_without_gpus"}
                   /\ e.details.nodes_checked = Len(last.items)
                   /\ e.details.nodes_without_gpus = NamesOf(last.items)

C20_Witness ==
    /\ CalledOnObject("validate_node_gpu_status")
    /\ Len(last.items) = 2
    /\ GpuCount(last.items[1]) = <<"0">>
    /\ last.items[2].gpu = Absent
    /\ StatusOf(<<"node_gpu_status">>) = "failed"
    /\ Get(validation_results, <<"node_gpu_status">>).details.nodes_checked = 2

(* the name of a ClusterServiceVersion contains gpu-operator, letter case
   aside *)
NamesGpuOperator(item) ==
    /\ item.name # Absent
    /\ \E i \in 1..Len(item.name) : LowerTok(item.name[i]) = "gpu-operator"

(* C21: after validate_gpu_operator_installation on a list of
   ClusterServiceVersions the status is failed when no name in the list
   contains gpu-operator, letter case aside, and passed otherwise, and then
   details.version is the spec.version of the first such entry of the list. *)
C21_FirstMatchingCsv ==
    CalledOnObject("validate_gpu_operator_installation") =>
        LET items == last.items
            hits == {i \in 1..Len(items) : NamesGpuOperator(items[i])}
        IN /\ last.exc = "none"
           /\ Has(validation_results, <<"gpu_operator">>)
           /\ LET e == Get(validation_results, <<"gpu_operator">>) IN
              IF hits = {} THEN e.status = "failed"
              ELSE LET first == items[Min(hits)] IN
                   /\ e.status = "passed"
                   /\ e.details.name = first.name
                   /\ first.version # Absent => e.details.version = first.version

C21_Witness ==
    /\ CalledOnObject("validate_gpu_operator_installation")
    /\ Len(last.items) = 2
    /\ last.items[1].name = <<"GPU-Operator">>
    /\ NamesGpuOperator(last.items[2])
    /\ last.items[2].version # last.items[1].version
    /\ StatusOf(<<"gpu_operator">>) = "passed"
    /\ Get(validation_results, <<"gpu_operator">>).details.version = <<"23.9.1">>

-----------------------------------------------------------------------------
(* Determinism of the probes *)

(* the two most recent calls ran the same probe with the same arguments and
   were given the same responses *)
SameCall ==
    /\ last.probe # "none"
    /\ prev.probe = last.probe
    /\ prev.target = last.target
    /\ prev.resps = last.resps

(* C22: two executions of the same probe that are given identical gateway
   responses issue the same commands and produce identical ledger entries
   (same outcome, same returned value) *)
C22_Deterministic ==
    SameCall =>
        /\ prev.issued = last.issued
        /\ prev.exc = last.exc
        /\ prev.entry = last.entry
        /\ prev.ret = last.ret

C22_Witness ==
    /\ SameCall
    /\ last.probe = "validate_gpu_workload"
    /\ Len(last.resps) = 2
    /\ last.exc = "none"
    /\ Has(validation_results, <<"gpu_workload">>)

-----------------------------------------------------------------------------
(* The ledger under repeated probe executions *)

(* C23: the ledger holds at most one entry per probe name; a probe execution
   that returned left exactly its own entry under its name, replacing the
   whole entry of an earlier execution; every status is passed, failed or
   warning *)
C23_OneEntryPerProbe ==
    /\ \A i, j \in 1..Len(validation_results) :
            validation_results[i].name = validation_results[j].name => i = j
    /\ \A i \in 1..Len(validation_results) :
            validation_results[i].status \in {"passed", "failed", "warning"}
    /\ (last.probe # "none" /\ last.exc = "none") =>
            /\ Has(validation_results, last.key)
            /\ Get(validation_results, last.key) = last.entry

C23_Witness ==
    /\ calls = 2
    /\ prev.probe = last.probe
    /\ prev.exc = "none"
    /\ last.exc = "none"
    /\ prev.entry.status = "passed"
    /\ last.entry.status = "failed"
    /\ Len(validation_results) = 1
    /\ validation_results[1] = last.entry

-----------------------------------------------------------------------------
(* The decisions of validate_gpu_workload *)

(* validate_gpu_workload was just called and its pod query either failed or
   returned a pod object with a first container *)
WorkloadCalled ==
    /\ last.probe = "validate_gpu_workload"
    /\ \/ last.rc # 0
       \/ last.shape = "obj" /\ last.resps[1].out.containers # <<>>

(* the first container names neither a GPU limit nor a GPU request *)
AsksNoGpu(pod) ==
    /\ pod.containers[1].limit \in {Absent, <<"0">>}
    /\ pod.containers[1].request \in {Absent, <<"0">>}

(* the known GPU error strings that occur in a log *)
KnownErrorsIn(out) == {GpuErrors[i] : i \in {j \in 1..Len(GpuErrors) : Contains(out, GpuErrors[j])}}

LogsCommand(t) == <<"oc", "logs">> \o t.pod_name \o <<"-n">> \o t.namespace

(* C24: validate_gpu_workload decides in this order: pod query fails ->
   failed; phase other than Running -> failed, no logs command; neither a
   GPU limit nor a GPU request on the first container -> failed, no logs
   command; logs command fails -> warning, returning True; a known GPU error
   string in the logs -> failed with the matched strings in details.errors;
   otherwise passed with the GPU limit and request in details *)
C24_WorkloadDecisionOrder ==
    WorkloadCalled =>
        LET rp == last.resps[1]
            e == last.entry
            failedWithoutLogs ==
                e.status = "failed" /\ ~last.ret /\ Len(last.issued) = 1
        IN /\ last.exc = "none"
           /\ e.name = <<"gpu_workload">>
           /\ IF rp.rc # 0 THEN failedWithoutLogs
              ELSE IF rp.out.phase # <<"Running">> THEN failedWithoutLogs
              ELSE IF AsksNoGpu(rp.out) THEN failedWithoutLogs
              ELSE /\ Len(last.issued) = 2
                   /\ last.issued[2] = LogsCommand(last.target)
                   /\ LET rl == last.resps[2] IN
                      IF rl.rc # 0
                      THEN e.status = "warning" /\ last.ret
                      ELSE IF KnownErrorsIn(rl.out) # {}
                      THEN /\ e.status = "failed" /\ ~last.ret
                           /\ e.details.kind = "errors"
                           /\ {e.details.errors[i] : i \in 1..Len(e.details.errors)}
                                  = KnownErrorsIn(rl.out)
                      ELSE /\ e.status = "passed" /\ last.ret
                           /\ e.details.kind = "gpu"
                           /\ e.details.gpu_limit =
                                  GetOr(rp.out.containers[1].limit, <<"0">>)
                           /\ e.details.gpu_request =
                                  GetOr(rp.out.containers[1].request, <<"0">>)

C24_Witness ==
    /\ WorkloadCalled
    /\ last.exc = "none"
    /\ Len(last.issued) = 2
    /\ last.entry.status = "failed"
    /\ last.entry.details.kind = "errors"
    /\ Len(last.entry.details.errors) = 2

-----------------------------------------------------------------------------
(* test_gpu_workload (lines 736-751): a fresh GPUValidator, the connectivity
   probe, then the workload probe on the given pod *)

(* line 748: validator.validate_oc_connection(); its result is not read *)
TwOcConnection ==
    /\ pc = "tw_start"
    /\ \E r \in WhoamiResponses :
          LET o == OcConnection(r) IN
          /\ cmds' = Append(cmds, <<"oc", "whoami">>)
          /\ validation_results' = Put(validation_results, o.entry)
          /\ last' = Called("validate_oc_connection", <<"oc_connection">>, r, "text",
                            r.out, o)
                       @@ [resps |-> <<r>>, issued |-> <<(<<"oc", "whoami">>)>>,
                           entry |-> o.entry, target |-> NoTarget]
    /\ pc' = "tw_connected"
    /\ prev' = last
    /\ UNCHANGED <<exc, ret, nodes, inventory, calls, smiVars, runs, target, checks, parse>>

(* line 749: result = validator.validate_gpu_workload(namespace, pod_name) *)
TwGpuWorkload ==
    /\ pc = "tw_connected"
    /\ \E rp \in PodQueryResponses, rl \in LogsResponses : WorkloadCall(target, rp, rl)
    /\ pc' = IF exc' = "none" THEN "tw_validated" ELSE "tw_raised"
    /\ prev' = last
    /\ UNCHANGED <<nodes, inventory, calls, smiVars, runs, target, checks, parse>>

(* lines 750-751: the summary is printed and result returned *)
TwReturn ==
    /\ pc = "tw_validated"
    /\ pc' = "tw_done"
    /\ UNCHANGED <<exc, ret, validation_results, cmds, nodes, inventory, last, calls,
                   smiVars, restVars>>

InitWorkload ==
    /\ pc = "tw_start"
    /\ exc = "none"
    /\ validation_results = <<>>
    /\ cmds = <<>>
    /\ nodes = <<>>
    /\ smiPc = "idle"
    /\ node_name = <<>>
    /\ temp_file = NoPod
    /\ attempt = 0
    /\ sleeps = 0
    /\ phase = "none"
    /\ return_code = 0
    /\ stdout = NoText
    /\ stderr = NoText
    /\ smiExc = "none"
    /\ ret = FALSE
    /\ created = <<>>
    /\ deleted = <<>>
    /\ teardown = "none"
    /\ inventory = <<>>
    /\ last = NoCall
    /\ calls = 0
    /\ prev = NoCall
    /\ runs = 0
    /\ target \in Targets
    /\ checks = <<>>
    /\ parse = NoParse

NextWorkload ==
    \/ TwOcConnection
    \/ TwGpuWorkload
    \/ TwReturn

SpecWorkload == InitWorkload /\ [][NextWorkload]_vars

(* C25: in test_gpu_workload a failing oc whoami stops the function: the
   workload probe is not executed, no further command is issued, and the
   function returns False with oc_connection as the only ledger entry *)
C25_WorkloadShortCircuit ==
    (/\ pc \in {"tw_validated", "tw_done", "tw_raised"}
     /\ StatusOf(<<"oc_connection">>) = "failed") =>
        /\ cmds = <<(<<"oc", "whoami">>)>>
        /\ KeyOrder(validation_results) = <<(<<"oc_connection">>)>>
        /\ ~ret

-----------------------------------------------------------------------------
(* The order of the commands of the per-node checks of a run *)

LastCmd == cmds[Len(cmds)]

(* within a check: exec follows the create of the same pod (the phase
   queries lie between them), delete follows the exec of the same pod, and
   no create falls between an exec and its delete *)
CommandsInOrder ==
    /\ \A i \in 1..Len(cmds) :
          /\ cmds[i][1] = "exec" =>
                i > 1 /\ cmds[i - 1] = <<"create">> \o Tail(cmds[i])
          /\ cmds[i][1] = "delete" =>
                i > 1 /\ cmds[i - 1] = <<"exec">> \o Tail(cmds[i])
          /\ (cmds[i][1] = "create" /\ i > 1) => cmds[i - 1][1] # "exec"
    /\ smiPc \in {"exec", "delete", "record"} => attempt >= 1

(* at most one debug pod is created and not yet under a delete, and a create
   is issued only when every earlier pod has had its delete issued *)
OnePodAtATime ==
    /\ Len(created) - Len(deleted) \in {0, 1}
    /\ smiPc \in {"start", "create"} => Len(created) = Len(deleted)

(* the per-node check of a run has just written its entry and returned *)
CheckReturned == pc = "smi" /\ smiPc = "returned"

DeleteWasLast == Len(cmds) > 0 /\ LastCmd = <<"delete">> \o DebugPodName(node_name)

(* C26 as stated: the commands of a per-node check occur in the order
   create, phase queries, exec, delete; the node's entry is written only
   after the delete has been issued; the checks are strictly sequential and
   at most one created, not yet deleted debug pod exists at any moment *)
C26_EntryAfterDelete ==
    /\ CommandsInOrder
    /\ OnePodAtATime
    /\ CheckReturned => DeleteWasLast

(* C26 amended: as above, except that a check whose create failed writes its
   entry right after the create, with no exec and no delete *)
C26_EntryAfterDeleteUnlessCreateFailed ==
    /\ CommandsInOrder
    /\ OnePodAtATime
    /\ CheckReturned =>
          IF return_code # 0 /\ LastCmd[1] = "create"
          THEN /\ Len(created) = Len(deleted)
               /\ Get(validation_results, SmiKey(node_name))
                      = CreateFailedEntry(node_name, stderr)
          ELSE DeleteWasLast /\ Len(created) = Len(deleted)

C26_Witness ==
    /\ CheckReturned
    /\ DeleteWasLast
    /\ Len(created) = 2
    /\ Len(deleted) = 2

-----------------------------------------------------------------------------
(* Two calls of validate_nvidia_smi_on_node running at the same time on one
   GPUValidator, for two different nodes.  Each call has its own locals
   (checks[w]); the ledger, the cluster and the file /tmp/nvidia-smi-debug.json
   (line 583) are shared. *)

Workers == {1, 2}

(* the locals of one call *)
Check(n) ==
    [node |-> n, pc |-> "open", submitted |-> NoPod, rc |-> 0, out |-> NoText,
     err |-> NoText, exc |-> "none"]

(* a file that holds the head of one manifest and the tail of another *)
Garbled == [name |-> <<"?">>, node |-> <<"?">>]

(* len() of the host name: its components and the dots between them *)
HostChars(n) ==
    CASE n = <<"node1", "a">> -> 7
      [] n = <<"node1", "b">> -> 7
      [] n = <<"node2">> -> 5

(* the file after a manifest is written from offset 0 over what it holds: a
   longer content underneath keeps its tail *)
Overlay(file, m) ==
    IF file = NoPod \/ file = m THEN m
    ELSE IF file = Garbled \/ HostChars(file.node) > HostChars(m.node) THEN Garbled
    ELSE m

(* the pods created and not yet under a delete *)
LivePods ==
    {created[i] : i \in {j \in 1..Len(created) :
        Cardinality({k \in 1..Len(created) : created[k] = created[j]})
            > Cardinality({k \in 1..Len(deleted) : deleted[k] = created[j]})}}

(* what oc create -f answers for the file as it is when the command runs *)
CreateAnswers(file) ==
    IF file = NoPod \/ file = Garbled
    THEN {Resp(1, NoText, <<"create: no objects passed to create">>)}
    ELSE IF file.name \in LivePods
    THEN {Resp(1, NoText, <<"create: already exists">>)}
    ELSE CreateResponses

ccFrame ==
    <<pc, exc, nodes, inventory, last, calls, prev, runs, target, parse, smiPc,
      node_name, attempt, sleeps, phase, return_code, stdout, stderr, smiExc, teardown,
      ret>>

(* line 584: open(temp_file, "w") truncates the file *)
CcOpen(w) ==
    /\ checks[w].pc = "open"
    /\ temp_file' = NoPod
    /\ checks' = [checks EXCEPT ![w].pc = "dump"]
    /\ UNCHANGED <<ccFrame, validation_results, cmds, created, deleted>>

(* line 585 and the end of the with block: the manifest reaches the file *)
CcDump(w) ==
    /\ checks[w].pc = "dump"
    /\ temp_file' = Overlay(temp_file, PodJson(checks[w].node))
    /\ checks' = [checks EXCEPT ![w].pc = "create"]
    /\ UNCHANGED <<ccFrame, validation_results, cmds, created, deleted>>

(* lines 587-598 *)
CcCreate(w) ==
    /\ checks[w].pc = "create"
    /\ \E r \in CreateAnswers(temp_file) :
        /\ cmds' = Append(cmds, <<"create">> \o temp_file.name)
        /\ IF r.rc # 0
           THEN /\ validation_results' =
                       Put(validation_results, CreateFailedEntry(checks[w].node, r.err))
                /\ checks' = [checks EXCEPT ![w].pc = "returned", ![w].rc = r.rc,
                                            ![w].err = r.err]
                /\ UNCHANGED created
           ELSE /\ created' = Append(created, temp_file.name)
                /\ checks' = [checks EXCEPT ![w].pc = "poll", ![w].rc = r.rc,
                                            ![w].submitted = temp_file]
                /\ UNCHANGED validation_results
    /\ UNCHANGED <<ccFrame, temp_file, deleted>>

(* lines 600-613: the polling loop, up to the phase query that ends it *)
CcPoll(w) ==
    /\ checks[w].pc = "poll"
    /\ \E r \in PhaseResponses :
          LET o == PollOutcome(r) IN
          checks' = [checks EXCEPT
                        ![w].pc = IF o \in {"break", "sleep"} THEN "exec" ELSE "raised",
                        ![w].exc = IF o \in {"break", "sleep"} THEN "none" ELSE o]
    /\ UNCHANGED <<ccFrame, validation_results, cmds, temp_file, created, deleted>>

(* lines 615-618 *)
CcExec(w) ==
    /\ checks[w].pc = "exec"
    /\ \E r \in ExecResponses :
          checks' = [checks EXCEPT ![w].pc = "delete", ![w].rc = r.rc,
                                   ![w].out = r.out, ![w].err = r.err]
    /\ cmds' = Append(cmds, <<"exec">> \o DebugPodName(checks[w].node))
    /\ UNCHANGED <<ccFrame, validation_results, temp_file, created, deleted>>

(* lines 620-623 *)
CcDelete(w) ==
    /\ checks[w].pc = "delete"
    /\ cmds' = Append(cmds, <<"delete">> \o DebugPodName(checks[w].node))
    /\ deleted' = Append(deleted, DebugPodName(checks[w].node))
    /\ checks' = [checks EXCEPT ![w].pc = "record"]
    /\ UNCHANGED <<ccFrame, validation_results, temp_file, created>>

(* lines 625-661 *)
CcRecord(w) ==
    /\ checks[w].pc = "record"
    /\ validation_results' =
           Put(validation_results,
               SmiEntry(checks[w].node, checks[w].rc, checks[w].out, checks[w].err))
    /\ checks' = [checks EXCEPT ![w].pc = "returned"]
    /\ UNCHANGED <<ccFrame, cmds, temp_file, created, deleted>>

WriteManifest == \E w \in Workers : CcOpen(w) \/ CcDump(w)

CreatePod == \E w \in Workers : CcCreate(w)

UsePod == \E w \in Workers : CcPoll(w) \/ CcExec(w)

RemovePod == \E w \in Workers : CcDelete(w) \/ CcRecord(w)

InitConcurrent ==
    /\ pc = "concurrent"
    /\ exc = "none"
    /\ validation_results = <<>>
    /\ cmds = <<>>
    /\ nodes = <<>>
    /\ smiPc = "idle"
    /\ node_name = <<>>
    /\ temp_file = NoPod
    /\ attempt = 0
    /\ sleeps = 0
    /\ phase = "none"
    /\ return_code = 0
    /\ stdout = NoText
    /\ stderr = NoText
    /\ smiExc = "none"
    /\ ret = FALSE
    /\ created = <<>>
    /\ deleted = <<>>
    /\ teardown = "none"
    /\ inventory = <<>>
    /\ last = NoCall
    /\ calls = 0
    /\ prev = NoCall
    /\ runs = 0
    /\ target = NoTarget
    /\ checks \in {c \in {<<Check(a), Check(b)>> : a, b \in NodeNames} : c[1] # c[2]}
    /\ parse = NoParse

NextConcurrent ==
    \/ WriteManifest
    \/ CreatePod
    \/ UsePod
    \/ RemovePod

SpecConcurrent == InitConcurrent /\ [][NextConcurrent]_vars

(* C27: of two per-node checks run concurrently for different nodes, each
   creates the pod pinned to its own node and named for it, whatever the
   interleaving of their manifest-write and create steps *)
C27_OwnPodCreated ==
    \A w \in Workers :
        (checks[w].pc \in {"poll", "exec", "delete", "record", "returned", "raised"}
         /\ checks[w].submitted # NoPod) =>
            checks[w].submitted = PodJson(checks[w].node)

-----------------------------------------------------------------------------
(* parse_ready_condition_message (gpu_operator_checks.py, lines 172-189) on
   the text of oc describe: a Conditions: line followed by the lines of each
   condition.  A line is its key (what startswith tests) and the text after
   the first colon, stripped. *)

MaxConditions == 2

(* Python's None *)
None == <<"<none>">>

Line(key, val) == [key |-> key, val |-> val]

(* the orders in which the lines of a condition can be printed *)
FieldOrders ==
    {<<"Type", "Status", "Message">>, <<"Type", "Message", "Status">>,
     <<"Status", "Type", "Message">>, <<"Status", "Message", "Type">>,
     <<"Message", "Type", "Status">>, <<"Message", "Status", "Type">>}

(* the i-th condition of a document; its Message line may be missing *)
Conditions(i) ==
    {[type |-> t, status |-> s, message |-> m] :
        t \in {<<"Ready">>, <<"Error">>}, s \in {<<"True">>, <<"False">>},
        m \in {<<"message", ToString(i)>>, Absent}}

ConditionLists ==
    {<<>>} \cup {<<c>> : c \in Conditions(1)}
    \cup {<<c, d>> : c \in Conditions(1), d \in Conditions(2)}

FieldOf(c, key) ==
    CASE key = "Type" -> c.type
      [] key = "Status" -> c.status
      [] key = "Message" -> c.message

(* the lines of one condition in the given order *)
ConditionLines(c, order) ==
    LET all == [k \in 1..Len(order) |-> Line(order[k], FieldOf(c, order[k]))]
    IN SelectSeq(all, LAMBDA l : l.val # Absent)

RECURSIVE DescribeLines(_, _)
DescribeLines(conds, order) ==
    IF conds = <<>> THEN <<>>
    ELSE ConditionLines(Head(conds), order) \o DescribeLines(Tail(conds), order)

(* the text handed to the function *)
DescribeOutput(conds, order) ==
    <<Line("Name", <<"gpu-cluster-policy">>), Line("Conditions", <<>>)>>
    \o DescribeLines(conds, order)

(* the call on a text: the locals of lines 173-176 *)
Parsing(conds, order) ==
    [pc |-> "scan", conds |-> conds, lines |-> DescribeOutput(conds, order), i |-> 1,
     in_conditions |-> FALSE, current_type |-> None, current_status |-> None,
     result |-> None]

parseFrame ==
    <<pc, exc, validation_results, cmds, nodes, inventory, last, calls, prev, runs,
      target, checks, ret, smiVars>>

(* lines 177-188: one iteration of the loop *)
ParseLine ==
    /\ parse.pc = "scan"
    /\ parse.i <= Len(parse.lines)
    /\ LET line == parse.lines[parse.i]
           next == [parse EXCEPT !.i = parse.i + 1]
       IN parse' =
            IF line.key = "Conditions" THEN [next EXCEPT !.in_conditions = TRUE]
            ELSE IF ~parse.in_conditions THEN next
            ELSE IF line.key = "Type" THEN [next EXCEPT !.current_type = line.val]
            ELSE IF line.key = "Status" THEN [next EXCEPT !.current_status = line.val]
            ELSE IF /\ line.key = "Message"
                    /\ parse.current_type = <<"Ready">>
                    /\ parse.current_status = <<"False">>
            THEN [parse EXCEPT !.pc = "returned", !.result = line.val]
            ELSE next
    /\ UNCHANGED parseFrame

(* line 189: return None *)
ParseEnd ==
    /\ parse.pc = "scan"
    /\ parse.i > Len(parse.lines)
    /\ parse' = [parse EXCEPT !.pc = "returned", !.result = None]
    /\ UNCHANGED parseFrame

InitParse ==
    /\ pc = "parsing"
    /\ exc = "none"
    /\ validation_results = <<>>
    /\ cmds = <<>>
    /\ nodes = <<>>
    /\ smiPc = "idle"
    /\ node_name = <<>>
    /\ temp_file = NoPod
    /\ attempt = 0
    /\ sleeps = 0
    /\ phase = "none"
    /\ return_code = 0
    /\ stdout = NoText
    /\ stderr = NoText
    /\ smiExc = "none"
    /\ ret = FALSE
    /\ created = <<>>
    /\ deleted = <<>>
    /\ teardown = "none"
    /\ inventory = <<>>
    /\ last = NoCall
    /\ calls = 0
    /\ prev = NoCall
    /\ runs = 0
    /\ target = NoTarget
    /\ checks = <<>>
    /\ parse \in {Parsing(conds, order) : conds \in ConditionLists, order \in FieldOrders}

NextParse ==
    \/ ParseLine
    \/ ParseEnd

SpecParse == InitParse /\ [][NextParse]_vars

(* the conditions of the text with Type Ready and Status False *)
ReadyFalse ==
    {i \in 1..Len(parse.conds) :
        parse.conds[i].type = <<"Ready">> /\ parse.conds[i].status = <<"False">>}

(* C28: parse_ready_condition_message returns the Message of the condition
   whose Type is Ready and whose Status is False, and None when there is no
   such condition or it has no Message; it never returns the Message of a
   different condition, whatever the order of the Type, Status and Message
   lines and whatever conditions precede *)
C28_ReadyFalseMessage ==
    parse.pc = "returned" =>
        IF \E i \in ReadyFalse : parse.conds[i].message # Absent
        THEN \E i \in ReadyFalse : parse.result = parse.conds[i].message
        ELSE parse.result = None

-----------------------------------------------------------------------------
(* run_all_validations called again on the same GPUValidator.  The ledger is
   created in __init__ (lines 25-33) and run_all_validations (lines 663-698)
   never empties it. *)

MaxRuns == 2

(* the finished runs from which the second call is explored: the connection
   and the five collection probes passed, and the check of the one GPU node
   passed too *)
FullLedger ==
    /\ Len(validation_results) = 7
    /\ \A i \in 1..6 : validation_results[i].status = "passed"
    /\ validation_results[7] =
           SmiEntry(<<"node1", "a">>, 0,
                    <<"NVIDIA-SMI", "Driver Version", ": ", "535.104.05">>, NoText)

(* the caller calls run_all_validations again after it has returned: the
   locals of the finished call are gone, the instance and the file remain *)
Rerun ==
    /\ pc = "done"
    /\ exc = "none"
    /\ runs < MaxRuns
    /\ FullLedger
    /\ runs' = runs + 1
    /\ pc' = "conn"
    /\ cmds' = <<>>
    /\ nodes' = <<>>
    /\ inventory' = <<>>
    /\ created' = <<>>
    /\ deleted' = <<>>
    /\ ret' = FALSE
    /\ UNCHANGED <<exc, validation_results, last, calls, prev, target, checks, parse,
                   smiPc, node_name, temp_file, attempt, sleeps, phase, return_code,
                   stdout, stderr, smiExc, teardown>>

NextRerun ==
    \/ Next
    \/ Rerun

SpecRerun == Init /\ [][NextRerun]_vars

Issued(cmd) == \E i \in 1..Len(cmds) : cmds[i] = cmd

(* the command of the probe that writes under key k was issued during the
   current call *)
IssuedFor(k) ==
    CASE k = <<"oc_connection">> -> Issued(<<"oc", "whoami">>)
      [] k = <<"gpu_operator">> -> Issued(<<"oc", "get", "csv">>)
      [] k = <<"gpu_operator_pods">> -> Issued(<<"oc", "get", "pods">>)
      [] k \in {<<"node_gpu_status">>, <<"gpu_feature_discovery">>} ->
            Issued(<<"oc", "get", "nodes">>)
      [] k = <<"driver_daemonset">> -> Issued(<<"oc", "get", "daemonset">>)
      [] OTHER -> k[1] = "nvidia_smi_" /\ Issued(<<"create">> \o DebugPodName(Tail(k)))

(* C29: the ledger run_all_validations returns holds only entries written
   during that call, also when the call is a re-run on the same instance: a
   re-run whose connectivity probe fails returns exactly one entry, and no
   nvidia_smi_<node> entry of an earlier run remains *)
C29_OnlyThisCallsEntries ==
    (pc = "done" /\ exc = "none") =>
        /\ \A k \in Keys(validation_results) : IssuedFor(k)
        /\ (ConnectionFailed /\ cmds = <<(<<"oc", "whoami">>)>>) =>
                Len(validation_results) = 1

-----------------------------------------------------------------------------
(* Every validate_* method of GPUValidator called on a fresh instance: the
   six collection probes and validate_gpu_workload in one step each,
   validate_nvidia_smi_on_node step by step *)

InitMethods == InitProbe \/ InitSmi

NextMethods == NextProbe \/ NextSmi

SpecMethods == InitMethods /\ [][NextMethods]_vars

(* the returned value says the entry under k is not failed *)
AgreesWith(k, value) ==
    /\ Has(validation_results, k)
    /\ StatusOf(k) \in {"passed", "failed", "warning"}
    /\ value = (StatusOf(k) \in {"passed", "warning"})
    /\ ~value = (StatusOf(k) = "failed")

(* C30: the boolean a validate_* method returns agrees with the entry it
   has just written under its name: False exactly when the status is
   failed, True exactly when it is passed or warning; no method returns
   without having written its entry *)
C30_ReturnAgreesWithEntry ==
    /\ (last.probe # "none" /\ last.exc = "none") =>
            /\ AgreesWith(last.key, last.ret)
            /\ Get(validation_results, last.key) = last.entry
    /\ smiPc = "returned" => AgreesWith(SmiKey(node_name), ret)

C30_Witness ==
    /\ last.probe = "validate_gpu_workload"
    /\ last.exc = "none"
    /\ StatusOf(<<"gpu_workload">>) = "warning"
    /\ last.ret

====
